---- MODULE Spec2Model ----
(***************************************************************************)
(* State-machine model of the migration orchestration engine of           *)
(* zechtz/migrator: the priority-group orchestrator and the per-task batch *)
(* loop (src/src/check-cache.ts), the class-based orchestrator            *)
(* (src/src/migration/concurrent-migrator.ts), the counting semaphore     *)
(* (src/src/utils/foreign-key-resolver.ts), the checkpoint store          *)
(* (src/src/data/checkpoint.ts) and the resumable single-table migration  *)
(* (src/src/migration/enhanced-migration.ts).                             *)
(*                                                                         *)
(* Every await of the source is a step boundary: one action runs the code  *)
(* between two awaits of one promise chain, as the single-threaded event   *)
(* loop does.                                                              *)
(***************************************************************************)
EXTENDS Integers, Sequences, FiniteSets, TLC

(***************************************************************************)
(* Bounds of the model.                                                    *)
(***************************************************************************)
MaxRows == 3
MaxFaults == 2
MaxTables == 2
MaxBatches == 2
BatchSize == 2
MaxRetries == 2
MaxRuns == 2

(***************************************************************************)
(* The tasks handed to the orchestrators (MigrationTask).                  *)
(***************************************************************************)
Tasks == {"A", "B", "C", "D"}

Priority == [A |-> 1, B |-> 1, C |-> 2, D |-> 3]

\* migration.maxConcurrentBatches, 0 when the task sets none
TaskBatches == [A |-> 2, B |-> 0, C |-> 0, D |-> 0]

PaginationStrategy == [A |-> "rownum", B |-> "offset", C |-> "cursor", D |-> "rownum"]

\* targetTable is a key of DEFAULT_CACHE_CONFIGS
IsReference == [A |-> TRUE, B |-> FALSE, C |-> FALSE, D |-> FALSE]

\* number of rows the task's source query yields (the source is stable); the
\* source of D is empty
SourceSize == [A |-> MaxRows, B |-> BatchSize, C |-> 1, D |-> 0]

\* an absent value (tableId, lastCursorValue, lastProcessedRecord); a present
\* value v of such a field is the tuple <<v>> or a longer tuple
Undefined == <<>>

\* a NULL column of a source or destination row, and the null a resolver returns
Null == 0

\* value of the natural key column (uniqueColumns has one column, for a
\* reference table the code column) of source row r: unique in A, the same in
\* every row of B, NULL in C
SourceKey(t, r) == IF t = "A" THEN r ELSE IF t = "B" THEN 1 ELSE Null

Range(s) == {s[i] : i \in DOMAIN s}

RECURSIVE SumSeq(_)
SumSeq(s) == IF s = <<>> THEN 0 ELSE Head(s) + SumSeq(Tail(s))

VARIABLES
    config,          \* MigrationConfig: maxConcurrentTables, maxConcurrentBatches
    options,         \* MigrationOptions: resumeStrategy (enhanced migration only)
    call,            \* the last direct call of a checkpoint-store or cache function
    mappingCache,    \* mappingCache: per table, Undefined or <<code -> id map>>
    migrations,      \* the MigrationTask[] given to the run
    orch,            \* position of the orchestrator
    task,            \* per task: position and locals of migrateTableInternal
    tableSemaphore,  \* state.tableSemaphore
    batchSemaphore,  \* state.batchSemaphore
    checkpoint,      \* state.checkpoint.tableProgress, in memory
    file,            \* the checkpoint file on disk
    written,         \* destination: per task and source row, rows holding its content
    committed,       \* per task, source rows whose page was committed at some time
    faults,          \* injected source/destination errors so far
    run,             \* number of process starts
    doneBefore,      \* tasks that completed in an earlier run
    savedBefore      \* per task, offset handed to its last finished save of an earlier run

vars == <<config, call, options, mappingCache, migrations, orch, task, tableSemaphore, batchSemaphore,
          checkpoint, file, written, committed, faults, run, doneBefore, savedBefore>>

(***************************************************************************)
(* Semaphore (src/src/utils/foreign-key-resolver.ts).  The executor of     *)
(* acquire's promise runs synchronously, so acquire is one step: it takes  *)
(* a permit or joins the queue.  release hands the permit to the longest   *)
(* waiter.                                                                 *)
(***************************************************************************)
Semaphore(permits) == [permits |-> permits, waiting |-> <<>>]

\* acquire admitting a caller when no permit is left (>= for >)
acquireAtZero(sem, who) ==
    IF sem.permits >= 0
    THEN [sem EXCEPT !.permits = @ - 1]
    ELSE [sem EXCEPT !.waiting = Append(@, who)]

acquire(sem, who) ==
    IF sem.permits > 0
    THEN [sem EXCEPT !.permits = @ - 1]
    ELSE [sem EXCEPT !.waiting = Append(@, who)]

\* release waking a waiter without taking the permit back
releaseKeepingPermit(sem) ==
    LET incremented == [sem EXCEPT !.permits = @ + 1]
    IN  IF Len(incremented.waiting) > 0
        THEN [permits |-> incremented.permits,
              waiting |-> Tail(incremented.waiting)]
        ELSE incremented

release(sem) ==
    LET incremented == [sem EXCEPT !.permits = @ + 1]
    IN  IF Len(incremented.waiting) > 0
        THEN [permits |-> incremented.permits - 1,
              waiting |-> Tail(incremented.waiting)]
        ELSE incremented

\* the callers of a synchronous run of acquire calls, in call order
RECURSIVE acquireAll(_, _)
acquireAll(sem, callers) ==
    IF callers = <<>> THEN sem
    ELSE acquireAll(acquire(sem, Head(callers)), Tail(callers))

(***************************************************************************)
(* Checkpoint store (src/src/data/checkpoint.ts).  The file is missing,    *)
(* unparsable, or holds a CheckpointData document.                         *)
(***************************************************************************)
NoProgress == [x \in {} |-> 0]

FreshCheckpoint ==
    [lastProcessedId |-> 0, totalProcessed |-> 0, tableProgress |-> NoProgress]

NoFile == [state |-> "missing", data |-> FreshCheckpoint]

\* the file's bytes taken as a document whether or not they parse
readCheckpointUnchecked(f) == f.data

\* the try/catch around readFile + JSON.parse of saveCheckpoint and loadCheckpoint
readCheckpoint(f) == IF f.state = "ok" THEN f.data ELSE FreshCheckpoint

loadCheckpoint(f) == readCheckpoint(f)

\* saveCheckpoint writing a document that holds the entry of tableId alone
updateCheckpointAlone(data, lastProcessedId, totalProcessed, tableId, lastProcessedRecord) ==
    [data EXCEPT !.tableProgress =
        [k \in {tableId} |->
            [lastProcessedId |-> lastProcessedId,
             totalProcessed |-> totalProcessed,
             isComplete |-> FALSE,
             lastCursorValue |-> Undefined,
             lastProcessedRecord |-> lastProcessedRecord]]]

\* the update saveCheckpoint applies to the document it has read
updateCheckpoint(data, lastProcessedId, totalProcessed, tableId, lastProcessedRecord) ==
    IF tableId # Undefined
    THEN [data EXCEPT !.tableProgress =
            [k \in DOMAIN @ \cup {tableId} |->
                IF k = tableId
                THEN [lastProcessedId |-> lastProcessedId,
                      totalProcessed |-> totalProcessed,
                      isComplete |-> FALSE,
                      lastCursorValue |-> Undefined,
                      lastProcessedRecord |-> lastProcessedRecord]
                ELSE @[k]]]
    ELSE [data EXCEPT !.lastProcessedId = lastProcessedId,
                      !.totalProcessed = totalProcessed]

(***************************************************************************)
(* Source reads (src/unnamed/part_013).  Source rows of a task are         *)
(* numbered 1..SourceSize in the order of the base query; the cursor       *)
(* column of row i holds i.                                                *)
(***************************************************************************)
\* rows returned by the paginated query: ROWNUM/OFFSET window, or cursor > last
fetchRows(t, strategy, offset, lastCursorValue) ==
    IF strategy = "cursor"
    THEN LET from == IF lastCursorValue = Undefined THEN 0 ELSE lastCursorValue[1]
         IN  {i \in 1..SourceSize[t] : i > from /\ i <= from + BatchSize}
    ELSE {i \in 1..SourceSize[t] : i > offset /\ i <= offset + BatchSize}

Max(S) == CHOOSE m \in S : \A x \in S : x <= m

\* fetchOracleDataWithPagination reporting after every page that no more rows
\* follow
fetchOracleDataNoMore(t, strategy, offset, lastCursorValue) ==
    LET rows == fetchRows(t, strategy, offset, lastCursorValue)
    IN  [rows |-> rows,
         lastCursorValue |-> IF strategy = "cursor" /\ rows # {}
                             THEN <<Max(rows)>> ELSE Undefined,
         hasMore |-> FALSE]

\* fetchOracleDataWithPagination: rows, lastCursorValue, hasMore
fetchOracleDataWithPagination(t, strategy, offset, lastCursorValue) ==
    LET rows == fetchRows(t, strategy, offset, lastCursorValue)
    IN  [rows |-> rows,
         lastCursorValue |-> IF strategy = "cursor" /\ rows # {}
                             THEN <<Max(rows)>> ELSE Undefined,
         hasMore |-> Cardinality(rows) = BatchSize]

(***************************************************************************)
(* Grouping of the tasks (migrateTablesConcurrently,                       *)
(* processMigrationsByPriorityGroups).                                     *)
(***************************************************************************)
\* Array.prototype.sort with (a, b) => a.priority - b.priority is stable
RECURSIVE insertByPriority(_, _)
insertByPriority(sorted, m) ==
    IF sorted = <<>> THEN <<m>>
    ELSE IF Priority[Head(sorted)] <= Priority[m]
         THEN <<Head(sorted)>> \o insertByPriority(Tail(sorted), m)
         ELSE <<m>> \o sorted

RECURSIVE sortByPriority(_)
\* the tasks left in the order given
sortByPriorityOmitted(ms) == ms

sortByPriority(ms) ==
    IF ms = <<>> THEN <<>>
    ELSE insertByPriority(sortByPriority(SubSeq(ms, 1, Len(ms) - 1)), ms[Len(ms)])

\* every task put in every group
groupMigrationsUngrouped(ms, priority) == ms

\* priorityGroups.get(priority): the tasks of one priority, in list order
groupMigrations(ms, priority) ==
    LET ofGroup(m) == Priority[m] = priority
    IN  SelectSeq(ms, ofGroup)

\* Array.from(priorityGroups.keys()).sort((a, b) => a - b)
RECURSIVE sortedPriorities(_)
sortedPriorities(sorted) ==
    IF sorted = <<>> THEN <<>>
    ELSE LET rest == sortedPriorities(Tail(sorted))
         IN  IF rest # <<>> /\ Head(rest) = Priority[Head(sorted)]
             THEN rest
             ELSE <<Priority[Head(sorted)]>> \o rest

IndexOf(s, x) == CHOOSE i \in DOMAIN s : s[i] = x

\* `table_p${priority}_${index}`, index counted from 0 within the group
TableId(ms, t) ==
    <<"table_p", Priority[t], IndexOf(groupMigrations(ms, Priority[t]), t) - 1>>

(***************************************************************************)
(* Per-task state of migrateTableWithDependencies / migrateTableInternal.  *)
(* pc: idle (not called), queued (waiting at the table gate), admitted,    *)
(* loop (top of while), batches (awaiting processBatchesConcurrently),     *)
(* saveRead / saveWrite (inside saveCheckpoint), cache (awaiting           *)
(* buildCacheAfterMigration), fulfilled, rejected.                         *)
(* A job is one BatchJob under retryOperation.  st: wait (queued at the    *)
(* batch gate), fetch (holds a permit, source read pending), write (holds  *)
(* a permit, destination write pending), caught (attempt failed, in the    *)
(* catch of retryOperation), ok, rejected.                                 *)
(***************************************************************************)
NewProgress ==
    [lastProcessedId |-> 0, totalProcessed |-> 0, isComplete |-> FALSE,
     lastCursorValue |-> Undefined, lastProcessedRecord |-> Undefined]

NoResult == [finished |-> FALSE, processedCount |-> 0, lastCursorValue |-> Undefined]

IdleTask ==
    [pc |-> "idle", tableId |-> Undefined, offset |-> 0, lastCursorValue |-> Undefined, batchNumber |-> 0,
     tableProgress |-> NewProgress, hasMore |-> FALSE, totalProcessedInBatch |-> 0,
     jobs |-> <<>>, page |-> {}, data |-> FreshCheckpoint, saved |-> Undefined,
     first |-> Undefined, issued |-> <<>>, returned |-> {}, tokens |-> <<>>,
     cursorColumn |-> Undefined, processed |-> 0, saves |-> 0]

Settled(t) == task[t].pc \in {"fulfilled", "rejected"}

\* Promise.all in place of Promise.allSettled: over at the first rejection
allOrFirstRejected(group) ==
    \/ \E t \in group : task[t].pc = "rejected"
    \/ \A t \in group : Settled(t)

\* Promise.allSettled(migrationPromises) has resolved
allSettled(group) == \A t \in group : Settled(t)

\* tasks between tableSemaphore.acquire() returning and tableSemaphore.release()
TableHolders ==
    {t \in Tasks : task[t].pc \in {"admitted", "loop", "batches", "saveRead",
                                    "saveWrite", "cache"}}

\* jobs between batchSemaphore.acquire() returning and batchSemaphore.release()
BatchHolders ==
    {w \in Tasks \X (1..(MaxBatches + 2)) :
        /\ w[2] \in DOMAIN task[w[1]].jobs
        /\ task[w[1]].jobs[w[2]].st \in {"fetch", "write"}}

\* release() leaving the first waiter's promise unresolved
wakeTableNever(tk, sem) == tk

\* release() resolves the promise of the first waiter
wakeTable(tk, sem) ==
    IF sem.waiting # <<>> THEN [tk EXCEPT ![Head(sem.waiting)].pc = "admitted"] ELSE tk

\* release resolving the promise of the last waiter (pop for shift)
wakeBatchLast(tk, sem) ==
    IF sem.waiting # <<>>
    THEN LET w == sem.waiting[Len(sem.waiting)]
         IN  [tk EXCEPT ![w[1]].jobs[w[2]].st = "fetch"]
    ELSE tk

wakeBatch(tk, sem) ==
    IF sem.waiting # <<>>
    THEN LET w == Head(sem.waiting) IN [tk EXCEPT ![w[1]].jobs[w[2]].st = "fetch"]
    ELSE tk

\* the task settles without a finally: the table permit is kept
settleKeepingPermit(tk, t, outcome) ==
    /\ task' = [tk EXCEPT ![t].pc = outcome]
    /\ UNCHANGED tableSemaphore

\* the finally of migrateTableWithDependencies: the task settles and releases
settle(tk, t, outcome) ==
    /\ task' = wakeTable([tk EXCEPT ![t].pc = outcome], tableSemaphore)
    /\ tableSemaphore' = release(tableSemaphore)

CorruptFile == [state |-> "corrupt", data |-> FreshCheckpoint]

\* no checkpoint-store function has been called directly
NoCall ==
    [op |-> "none", tableId |-> Undefined, totalProcessed |-> 0, before |-> NoFile,
     result |-> FreshCheckpoint]

(***************************************************************************)
(* The reference cache (src/unnamed/part_008).  A destination table is     *)
(* read as a set of rows [code, id]; the map of a table is a function from *)
(* String(code) to the id.                                                 *)
(***************************************************************************)
\* new Map(): no table has a map
NoCaches == [t \in Tasks |-> Undefined]

\* String(code): the key of tableMap, and of the lookup
String(v) == ToString(v)

\* value of the id column of the destination row made from source row r
RowId(t, r) == r + SourceSize[t]

\* the destination table of task t as rows of code and id
tableRows(dest, t) ==
    {[code |-> SourceKey(t, r), id |-> RowId(t, r)] :
        r \in {x \in DOMAIN dest[t] : dest[t][x] > 0}}

\* tableMap after the forEach over SELECT code, id WHERE code IS NOT NULL AND
\* id IS NOT NULL
tableMapOf(rows) ==
    LET kept == {row \in rows : row.code # Null /\ row.id # Null}
    IN  [k \in {String(row.code) : row \in kept} |->
           (CHOOSE row \in kept : String(row.code) = k).id]

\* the table's map replaced by a map that holds one entry of tableMap only
mappingCacheSetPartly(cache, tableName, tableMap) ==
    [cache EXCEPT ![tableName] =
        IF DOMAIN tableMap = {} THEN <<tableMap>>
        ELSE LET k == CHOOSE x \in DOMAIN tableMap : TRUE
             IN  <<[x \in {k} |-> tableMap[x]]>>]

\* mappingCache.set(tableName, tableMap): the table's entry now is tableMap
mappingCacheSet(cache, tableName, tableMap) ==
    [cache EXCEPT ![tableName] = <<tableMap>>]

\* the table as the build finds it: it exists and has both columns
existingTable(rows) == [exists |-> TRUE, columns |-> {"code", "id"}, rows |-> rows]

\* hasData reported for every table
hasDataAssumed(rows) == TRUE

\* COUNT(*) WHERE code IS NOT NULL > 0
hasData(rows) == \E row \in rows : row.code # Null

\* validateTableForCache: exists, hasData, missingColumns
validateTableForCache(table) ==
    IF ~table.exists
    THEN [exists |-> FALSE, hasData |-> FALSE, missingColumns |-> {}]
    ELSE IF {"code", "id"} \ table.columns # {}
         THEN [exists |-> TRUE, hasData |-> FALSE,
               missingColumns |-> {"code", "id"} \ table.columns]
         ELSE [exists |-> TRUE, hasData |-> hasData(table.rows), missingColumns |-> {}]

\* buildMappingCacheEnhanced adding the rows read to the map the table had
buildMappingCacheBlended(cache, tableName, table) ==
    IF hasData(table.rows)
    THEN LET old == IF cache[tableName] = Undefined THEN <<>> ELSE cache[tableName][1]
             new == tableMapOf(table.rows)
         IN  [success |-> TRUE,
              cache |-> [cache EXCEPT ![tableName] =
                           <<[k \in DOMAIN old \cup DOMAIN new |->
                                IF k \in DOMAIN new THEN new[k] ELSE old[k]]>>]]
    ELSE [success |-> FALSE, cache |-> cache]

\* buildMappingCacheEnhanced without a failing query: false and no change for
\* a missing table, a missing column or a table without data, else
\* mappingCache.set(tableName, tableMap) and true
buildMappingCacheEnhanced(cache, tableName, table) ==
    LET validation == validateTableForCache(table)
    IN  IF ~validation.exists \/ validation.missingColumns # {} \/ ~validation.hasData
        THEN [success |-> FALSE, cache |-> cache]
        ELSE [success |-> TRUE,
              cache |-> mappingCacheSet(cache, tableName, tableMapOf(table.rows))]

\* a resolver that finds no code
createForeignKeyResolverBlind(cache, tableName, sourceCode) == Null

\* the resolver createForeignKeyResolverEnhanced(tableName) returns, applied
\* to the code of a source row: null for a falsy code, a missing map or a
\* missing code
createForeignKeyResolverEnhanced(cache, tableName, sourceCode) ==
    IF sourceCode = Null \/ cache[tableName] = Undefined THEN Null
    ELSE LET tableMap == cache[tableName][1]
         IN  IF String(sourceCode) \in DOMAIN tableMap
             THEN tableMap[String(sourceCode)] ELSE Null

\* buildInitialCaches returning before any build
buildInitialCachesSkipped(cache, dest, tables, failing) ==
    [cache |-> cache, attempted |-> {}, built |-> {}]

\* buildInitialCaches: a build for every table of DEFAULT_CACHE_CONFIGS, one
\* after the other, the result of each only logged; a query fails in the
\* builds of the tables in failing.  attempted: the tables whose build has
\* returned; built: those whose build returned true
RECURSIVE buildInitialCaches(_, _, _, _)
buildInitialCaches(cache, dest, tables, failing) ==
    IF tables = {} THEN [cache |-> cache, attempted |-> {}, built |-> {}]
    ELSE LET t == CHOOSE x \in tables : TRUE
             build == IF t \in failing THEN [success |-> FALSE, cache |-> cache]
                      ELSE buildMappingCacheEnhanced(cache, t,
                                                     existingTable(tableRows(dest, t)))
             rest == buildInitialCaches(build.cache, dest, tables \ {t}, failing)
         IN  [cache |-> rest.cache,
              attempted |-> rest.attempted \cup {t},
              built |-> rest.built \cup (IF build.success THEN {t} ELSE {})]

BootOrch ==
    [pc |-> "boot", loaded |-> "none", sorted |-> <<>>, todo |-> <<>>, priority |-> 0,
     errors |-> <<>>, attempted |-> {}, built |-> {}]

NothingWritten == [t \in Tasks |-> [i \in 1..SourceSize[t] |-> 0]]

Init ==
    /\ config \in [maxConcurrentTables : 1..MaxTables,
                   maxConcurrentBatches : 1..MaxBatches]
    /\ options = [resumeStrategy |-> "skip-existing"]
    /\ call = NoCall
    /\ mappingCache = NoCaches
    /\ migrations = <<"C", "A", "B">>
    /\ orch = BootOrch
    /\ task = [t \in Tasks |-> IdleTask]
    /\ tableSemaphore = Semaphore(config.maxConcurrentTables)
    /\ batchSemaphore = Semaphore(config.maxConcurrentBatches)
    /\ checkpoint = NoProgress
    /\ file = NoFile
    /\ written = NothingWritten
    /\ committed = [t \in Tasks |-> {}]
    /\ faults = 0
    /\ run = 1
    /\ doneBefore = {}
    /\ savedBefore = [t \in Tasks |-> Undefined]

(***************************************************************************)
(* runMigration and the head of migrateTablesConcurrently: load the        *)
(* checkpoint, build the semaphores, sort the tasks; then the initial      *)
(* caches.                                                                 *)
(***************************************************************************)
runMigration ==
    /\ orch.pc = "boot"
    /\ checkpoint' = loadCheckpoint(file).tableProgress
    /\ tableSemaphore' = Semaphore(config.maxConcurrentTables)
    /\ batchSemaphore' = Semaphore(config.maxConcurrentBatches)
    /\ LET sorted == sortByPriority(migrations)
       IN  orch' = [orch EXCEPT !.pc = "caches", !.loaded = file.state,
                                !.sorted = sorted,
                                !.todo = sortedPriorities(sorted)]
    /\ UNCHANGED <<config, call, options, mappingCache, committed, migrations, task, file, written,
                   faults, run, doneBefore, savedBefore>>

\* await buildInitialCaches(...) in migrateTablesConcurrently returns; a query
\* may fail in the build of a table that has data
initialCaches ==
    /\ orch.pc = "caches"
    /\ \E failing \in SUBSET {t \in Tasks : IsReference[t] /\ hasData(tableRows(written, t))} :
          LET initial == buildInitialCaches(mappingCache, written,
                                            {t \in Tasks : IsReference[t]}, failing)
          IN  /\ mappingCache' = initial.cache
              /\ orch' = [orch EXCEPT !.pc = "groups",
                                      !.attempted = initial.attempted,
                                      !.built = initial.built]
    /\ UNCHANGED <<config, call, options, committed, migrations, task, tableSemaphore,
                   batchSemaphore, checkpoint, file, written, faults, run, doneBefore,
                   savedBefore>>

(***************************************************************************)
(* processMigrationsByPriorityGroups.                                      *)
(***************************************************************************)
\* one turn of the for loop up to the await of Promise.allSettled: every task of
\* the group is called and runs synchronously into tableSemaphore.acquire()
startGroup ==
    /\ orch.pc = "groups"
    /\ orch.todo # <<>>
    /\ LET priority == Head(orch.todo)
           group == groupMigrations(orch.sorted, priority)
           sem == acquireAll(tableSemaphore, group)
       IN  /\ tableSemaphore' = sem
           /\ task' = [t \in Tasks |->
                         IF t \in Range(group)
                         THEN [task[t] EXCEPT
                                 !.pc = IF t \in Range(sem.waiting)
                                        THEN "queued" ELSE "admitted",
                                 !.tableId = TableId(orch.sorted, t)]
                         ELSE task[t]]
           /\ orch' = [orch EXCEPT !.pc = "awaiting", !.priority = priority,
                                   !.todo = Tail(@)]
    /\ UNCHANGED <<config, call, options, mappingCache, committed, migrations, batchSemaphore, checkpoint, file, written,
                   faults, run, doneBefore, savedBefore>>

\* Promise.allSettled has resolved: throw when a task was rejected, else go on
groupSettled ==
    /\ orch.pc = "awaiting"
    /\ LET group == Range(groupMigrations(orch.sorted, orch.priority))
           failures == {t \in group : task[t].pc = "rejected"}
       IN  /\ allSettled(group)
           /\ orch' = IF failures # {}
                      THEN [orch EXCEPT
                              !.pc = "raised",
                              !.errors = Append(@, [failed |-> Cardinality(failures),
                                                    priority |-> orch.priority])]
                      ELSE [orch EXCEPT !.pc = "groups"]
    /\ UNCHANGED <<config, call, options, mappingCache, committed, migrations, task, tableSemaphore, batchSemaphore,
                   checkpoint, file, written, faults, run, doneBefore, savedBefore>>

\* the for loop is exhausted: migrateTablesConcurrently returns
finish ==
    /\ orch.pc = "groups"
    /\ orch.todo = <<>>
    /\ orch' = [orch EXCEPT !.pc = "done"]
    /\ UNCHANGED <<config, call, options, mappingCache, committed, migrations, task, tableSemaphore, batchSemaphore,
                   checkpoint, file, written, faults, run, doneBefore, savedBefore>>

(***************************************************************************)
(* migrateTableInternal.                                                   *)
(***************************************************************************)
\* migration.cursorColumn of a task: a task paginated by cursor is configured
\* with a column or without one
CursorColumns(t) ==
    IF PaginationStrategy[t] = "cursor" THEN {Undefined, <<"ID">>} ELSE {Undefined}

\* validatePaginationConfig accepting every configuration
validatePaginationConfigLax(strategy, cursorColumn) == TRUE

\* validatePaginationConfig returns (TRUE) or throws (FALSE)
validatePaginationConfig(strategy, cursorColumn) ==
    ~(strategy = "cursor" /\ cursorColumn = Undefined)

\* from the table gate to the top of the while loop, to the early return for a
\* task the in-memory checkpoint holds as complete, or to the throw of
\* validatePaginationConfig, which the finally of migrateTableWithDependencies
\* follows
beginTable(t) ==
    /\ task[t].pc = "admitted"
    /\ \E cursorColumn \in CursorColumns(t) :
        LET id == task[t].tableId
            tableProgress == IF id \in DOMAIN checkpoint THEN checkpoint[id]
                             ELSE NewProgress
        IN  IF tableProgress.isComplete
            THEN /\ task' = [task EXCEPT ![t] =
                              [@ EXCEPT !.pc = "cache", !.tableProgress = tableProgress]]
                 /\ UNCHANGED tableSemaphore
            ELSE IF ~validatePaginationConfig(PaginationStrategy[t], cursorColumn)
            THEN settle([task EXCEPT ![t] =
                           [@ EXCEPT !.tableProgress = tableProgress,
                                     !.cursorColumn = cursorColumn]],
                        t, "rejected")
            ELSE /\ task' = [task EXCEPT ![t] =
                              [@ EXCEPT !.pc = "loop",
                                        !.tableProgress = tableProgress,
                                        !.cursorColumn = cursorColumn,
                                        !.offset = tableProgress.lastProcessedId,
                                        !.lastCursorValue = tableProgress.lastCursorValue,
                                        !.hasMore = TRUE,
                                        !.batchNumber = 0]]
                 /\ UNCHANGED tableSemaphore
    /\ UNCHANGED <<config, call, options, mappingCache, committed, migrations, orch, batchSemaphore,
                   checkpoint, file, written, faults, run, doneBefore, savedBefore>>

\* migration.maxConcurrentBatches || state.config.maxConcurrentBatches
effectiveBatches(t) ==
    IF TaskBatches[t] # 0 THEN TaskBatches[t] ELSE config.maxConcurrentBatches

\* every job of an iteration given the offset the iteration starts with
batchOffsetShared(offset, i) == offset

\* offset of the i-th job of an iteration: offset += batchSize after each job
batchOffset(offset, i) == offset + (i - 1) * BatchSize

\* tableProgress.lastProcessedId = offset moved before the await
progressAtLaunchAdvanced(tableProgress, offset) ==
    [tableProgress EXCEPT !.lastProcessedId = offset]

\* tableProgress while the batches run: the for loop advances the local offset
\* only; tableProgress is assigned after processBatchesConcurrently returned
progressAtLaunch(tableProgress, offset) == tableProgress

\* the for loop that builds batchJobs, then processBatchesConcurrently up to
\* Promise.all: every job enters retryOperation and processBatch and runs
\* synchronously into batchSemaphore.acquire()
launchBatches(t) ==
    /\ task[t].pc = "loop"
    /\ LET n == effectiveBatches(t)
           paged == PaginationStrategy[t] \in {"offset", "rownum"}
           callers == [i \in 1..n |-> <<t, i>>]
           sem == acquireAll(batchSemaphore, callers)
           jobs == [i \in 1..n |->
                      [offset |-> IF paged THEN batchOffset(task[t].offset, i)
                                  ELSE task[t].offset,
                       lastCursorValue |-> task[t].lastCursorValue,
                       st |-> IF <<t, i>> \in Range(sem.waiting) THEN "wait" ELSE "fetch",
                       attempt |-> 1,
                       lastError |-> 0,
                       rows |-> {},
                       result |-> NoResult]]
       IN  /\ batchSemaphore' = sem
           /\ task' = [task EXCEPT ![t] =
                         [@ EXCEPT !.pc = "batches",
                                   !.jobs = jobs,
                                   !.batchNumber = @ + n,
                                   !.offset = IF paged THEN @ + n * BatchSize ELSE @,
                                   !.tableProgress =
                                       progressAtLaunch(@, IF paged
                                                           THEN task[t].offset + n * BatchSize
                                                           ELSE task[t].offset),
                                   !.first = IF @ = Undefined
                                             THEN <<jobs[1].offset, jobs[1].lastCursorValue>>
                                             ELSE @,
                                   !.issued = @ \o [i \in 1..n |->
                                                 <<jobs[i].offset, jobs[i].lastCursorValue>>]]]
    /\ UNCHANGED <<config, call, options, mappingCache, committed, migrations, orch, tableSemaphore, checkpoint, file,
                   written, faults, run, doneBefore, savedBefore>>

(***************************************************************************)
(* processBatch under retryOperation.                                      *)
(***************************************************************************)
\* fetchOracleDataWithPagination returns; an empty page ends the batch
fetchBatch(t, i) ==
    /\ i \in DOMAIN task[t].jobs
    /\ task[t].jobs[i].st = "fetch"
    /\ LET job == task[t].jobs[i]
           page == fetchOracleDataWithPagination(t, PaginationStrategy[t], job.offset,
                                                 job.lastCursorValue)
           seen == [task EXCEPT ![t].returned = @ \cup {Cardinality(page.rows)}]
       IN  IF page.rows = {}
           THEN /\ task' = wakeBatch(
                              [seen EXCEPT ![t].jobs[i] =
                                 [job EXCEPT !.st = "ok",
                                             !.result = [finished |-> TRUE,
                                                         processedCount |-> 0,
                                                         lastCursorValue |-> Undefined]]],
                              batchSemaphore)
                /\ batchSemaphore' = release(batchSemaphore)
           ELSE /\ task' = [seen EXCEPT ![t].jobs[i] =
                              [job EXCEPT !.st = "write",
                                          !.rows = page.rows,
                                          !.result = [finished |-> ~page.hasMore,
                                                      processedCount |-> Cardinality(page.rows),
                                                      lastCursorValue |-> page.lastCursorValue]]]
                /\ UNCHANGED batchSemaphore
    /\ UNCHANGED <<config, call, options, mappingCache, committed, migrations, orch, tableSemaphore, checkpoint, file,
                   written, faults, run, doneBefore, savedBefore>>

\* transformData and insertPostgresData return: the page is committed
writeBatch(t, i) ==
    /\ i \in DOMAIN task[t].jobs
    /\ task[t].jobs[i].st = "write"
    /\ LET job == task[t].jobs[i]
       IN  /\ written' = [written EXCEPT ![t] =
                            [r \in DOMAIN @ |-> IF r \in job.rows THEN @[r] + 1 ELSE @[r]]]
           /\ task' = wakeBatch([task EXCEPT ![t].jobs[i] =
                                   [job EXCEPT !.st = "ok", !.rows = {}],
                                              ![t].processed =
                                                  @ + job.result.processedCount],
                                batchSemaphore)
           /\ batchSemaphore' = release(batchSemaphore)
    /\ committed' = [committed EXCEPT ![t] = @ \cup task[t].jobs[i].rows]
    /\ UNCHANGED <<config, call, options, mappingCache, migrations, orch, tableSemaphore, checkpoint, file,
                   faults, run, doneBefore, savedBefore>>

\* the source read or the destination write throws (the insert is rolled
\* back): the finally releases the permit, retryOperation catches
failBatch(t, i) ==
    /\ i \in DOMAIN task[t].jobs
    /\ task[t].jobs[i].st \in {"fetch", "write"}
    /\ faults < MaxFaults
    /\ faults' = faults + 1
    /\ task' = wakeBatch([task EXCEPT ![t].jobs[i] =
                            [@ EXCEPT !.st = "caught", !.rows = {}, !.result = NoResult,
                                      !.lastError = task[t].jobs[i].attempt]],
                         batchSemaphore)
    /\ batchSemaphore' = release(batchSemaphore)
    /\ UNCHANGED <<config, call, options, mappingCache, committed, migrations, orch, tableSemaphore, checkpoint, file,
                   written, run, doneBefore, savedBefore>>

\* the for loop going on after a success as after a failure
retryAllowedOnceMore(attempt) == attempt <= MaxRetries

\* the for loop of retryOperation has another turn: attempt < maxRetries
retryAllowed(attempt) == attempt < MaxRetries

\* retryOperation after a failed attempt: sleep and call processBatch again,
\* or throw the last error, which rejects Promise.all and with it the task
retryBatch(t, i) ==
    /\ i \in DOMAIN task[t].jobs
    /\ task[t].jobs[i].st = "caught"
    /\ IF retryAllowed(task[t].jobs[i].attempt)
       THEN /\ batchSemaphore' = acquire(batchSemaphore, <<t, i>>)
            /\ task' = [task EXCEPT ![t].jobs[i] =
                          [@ EXCEPT !.attempt = @ + 1,
                                    !.st = IF batchSemaphore.permits > 0
                                           THEN "fetch" ELSE "wait"]]
            /\ UNCHANGED tableSemaphore
       ELSE /\ UNCHANGED batchSemaphore
            /\ IF task[t].pc = "batches"
               THEN settle([task EXCEPT ![t].jobs[i].st = "rejected"], t, "rejected")
               ELSE /\ task' = [task EXCEPT ![t].jobs[i].st = "rejected"]
                    /\ UNCHANGED tableSemaphore
    /\ UNCHANGED <<config, call, options, mappingCache, committed, migrations, orch, checkpoint, file, written, faults,
                   run, doneBefore, savedBefore>>

\* the lastCursorValue left by the loop over batchResults
RECURSIVE lastCursorOf(_, _)
lastCursorOf(results, previous) ==
    IF results = <<>> THEN previous
    ELSE lastCursorOf(Tail(results),
                      IF Head(results).lastCursorValue # Undefined
                      THEN Head(results).lastCursorValue ELSE previous)

putProgress(progress, id, tableProgress) ==
    [k \in DOMAIN progress \cup {id} |-> IF k = id THEN tableProgress ELSE progress[k]]

\* tableProgress.totalProcessed = totalProcessedInBatch
addProcessedLast(totalProcessed, totalProcessedInBatch) == totalProcessedInBatch

\* tableProgress.totalProcessed += totalProcessedInBatch
addProcessed(totalProcessed, totalProcessedInBatch) ==
    totalProcessed + totalProcessedInBatch

\* Promise.all has resolved: add up the results, update tableProgress and the
\* in-memory checkpoint, call saveCheckpoint (which runs into its readFile)
collectBatches(t) ==
    /\ task[t].pc = "batches"
    /\ \A i \in DOMAIN task[t].jobs : task[t].jobs[i].st = "ok"
    /\ LET results == [i \in DOMAIN task[t].jobs |-> task[t].jobs[i].result]
           totalProcessedInBatch ==
               SumSeq([i \in DOMAIN results |-> results[i].processedCount])
           lastCursorValue == lastCursorOf(results, task[t].lastCursorValue)
           hasMore == \A i \in DOMAIN results : ~results[i].finished
           tableProgress ==
               [task[t].tableProgress EXCEPT
                   !.totalProcessed = addProcessed(@, totalProcessedInBatch),
                   !.lastProcessedId = task[t].offset,
                   !.lastCursorValue = lastCursorValue]
       IN  /\ task' = [task EXCEPT ![t] =
                         [@ EXCEPT !.pc = "saveRead",
                                   !.jobs = <<>>,
                                   !.tableProgress = tableProgress,
                                   !.lastCursorValue = lastCursorValue,
                                   !.tokens = Append(@, lastCursorValue),
                                   !.saves = @ + 1,
                                   !.hasMore = hasMore,
                                   !.totalProcessedInBatch = totalProcessedInBatch]]
           /\ checkpoint' = putProgress(checkpoint, task[t].tableId, tableProgress)
    /\ UNCHANGED <<config, call, options, mappingCache, committed, migrations, orch, tableSemaphore, batchSemaphore, file,
                   written, faults, run, doneBefore, savedBefore>>

\* saveCheckpoint: readFile and JSON.parse have returned (or thrown)
saveRead(t) ==
    /\ task[t].pc = "saveRead"
    /\ task' = [task EXCEPT ![t] = [@ EXCEPT !.pc = "saveWrite",
                                             !.data = readCheckpoint(file)]]
    /\ UNCHANGED <<config, call, options, mappingCache, committed, migrations, orch, tableSemaphore, batchSemaphore,
                   checkpoint, file, written, faults, run, doneBefore, savedBefore>>

\* saveCheckpoint(checkpointFile, lastProcessedId, totalProcessed): writeFile
\* has returned; then the tail of the loop body, and after the loop the task
\* is marked complete in memory
saveWrite(t) ==
    /\ task[t].pc = "saveWrite"
    /\ file' = [state |-> "ok",
                data |-> updateCheckpoint(task[t].data,
                                          task[t].tableProgress.lastProcessedId,
                                          task[t].tableProgress.totalProcessed,
                                          Undefined, Undefined)]
    /\ LET hasMore == task[t].hasMore /\ task[t].totalProcessedInBatch # 0
           saved == <<task[t].tableProgress.lastProcessedId,
                      task[t].tableProgress.lastCursorValue>>
           complete == [task[t].tableProgress EXCEPT !.isComplete = TRUE]
       IN  IF hasMore
           THEN /\ task' = [task EXCEPT ![t] =
                              [@ EXCEPT !.pc = "loop", !.data = FreshCheckpoint,
                                        !.totalProcessedInBatch = 0,
                                        !.saved = saved]]
                /\ UNCHANGED checkpoint
           ELSE /\ task' = [task EXCEPT ![t] =
                              [@ EXCEPT !.pc = "cache", !.data = FreshCheckpoint,
                                        !.totalProcessedInBatch = 0,
                                        !.hasMore = FALSE,
                                        !.saved = saved,
                                        !.tableProgress = complete]]
                /\ checkpoint' = putProgress(checkpoint, task[t].tableId, complete)
    /\ UNCHANGED <<config, call, options, mappingCache, committed, migrations, orch, tableSemaphore, batchSemaphore,
                   written, faults, run, doneBefore, savedBefore>>

(***************************************************************************)
(* The tail of migrateTableWithDependencies: buildCacheAfterMigration,     *)
(* then the finally that releases the table gate.                          *)
(***************************************************************************)
\* buildMappingCacheEnhanced returns false for a table without data, and
\* buildCacheAfterMigration then throws
buildCache(t) ==
    /\ task[t].pc = "cache"
    /\ LET built == buildMappingCacheEnhanced(mappingCache, t,
                                              existingTable(tableRows(written, t)))
       IN  IF ~IsReference[t]
           THEN /\ settle(task, t, "fulfilled")
                /\ UNCHANGED mappingCache
           ELSE /\ mappingCache' = built.cache
                /\ settle(task, t, IF built.success THEN "fulfilled" ELSE "rejected")
    /\ UNCHANGED <<config, call, options, committed, migrations, orch, batchSemaphore, checkpoint, file,
                   written, faults, run, doneBefore, savedBefore>>

\* a query of the cache build fails: buildMappingCacheEnhanced returns false
buildCacheFails(t) ==
    /\ task[t].pc = "cache"
    /\ IsReference[t]
    /\ faults < MaxFaults
    /\ faults' = faults + 1
    /\ settle(task, t, "rejected")
    /\ UNCHANGED <<config, call, options, mappingCache, committed, migrations, orch, batchSemaphore, checkpoint, file,
                   written, run, doneBefore, savedBefore>>

(***************************************************************************)
(* The process ends (killed, or exited after the run returned or raised)   *)
(* and is started again on the same checkpoint file and destination.  A    *)
(* kill while writeFile is in progress can leave the file unparsable.      *)
(***************************************************************************)
restart ==
    /\ run < MaxRuns
    /\ orch.pc # "boot"
    /\ run' = run + 1
    /\ file' \in IF \E t \in Tasks : task[t].pc \in {"saveWrite", "ckWrite", "markWrite"}
                 THEN {file, CorruptFile} ELSE {file}
    /\ doneBefore' = doneBefore \cup {t \in Tasks : task[t].pc = "fulfilled"}
    /\ savedBefore' = [t \in Tasks |->
                         IF task[t].tableProgress.isComplete THEN Undefined
                         ELSE task[t].saved]
    /\ orch' = BootOrch
    /\ task' = [t \in Tasks |-> IdleTask]
    /\ tableSemaphore' = Semaphore(config.maxConcurrentTables)
    /\ batchSemaphore' = Semaphore(config.maxConcurrentBatches)
    /\ checkpoint' = NoProgress
    /\ mappingCache' = NoCaches
    /\ UNCHANGED <<config, call, options, committed, migrations, written, faults>>

Next ==
    \/ runMigration
    \/ initialCaches
    \/ startGroup
    \/ groupSettled
    \/ finish
    \/ \E t \in Tasks : beginTable(t)
    \/ \E t \in Tasks : launchBatches(t)
    \/ \E t \in Tasks, i \in 1..(MaxBatches + 2) : fetchBatch(t, i)
    \/ \E t \in Tasks, i \in 1..(MaxBatches + 2) : writeBatch(t, i)
    \/ \E t \in Tasks, i \in 1..(MaxBatches + 2) : failBatch(t, i)
    \/ \E t \in Tasks, i \in 1..(MaxBatches + 2) : retryBatch(t, i)
    \/ \E t \in Tasks : collectBatches(t)
    \/ \E t \in Tasks : saveRead(t)
    \/ \E t \in Tasks : saveWrite(t)
    \/ \E t \in Tasks : buildCache(t)
    \/ \E t \in Tasks : buildCacheFails(t)
    \/ restart

Spec == Init /\ [][Next]_vars

\* one run of the process in which every pending call eventually returns or
\* throws and every resolved promise is eventually continued
NextRun ==
    \/ runMigration
    \/ initialCaches
    \/ startGroup
    \/ groupSettled
    \/ finish
    \/ \E t \in Tasks : beginTable(t)
    \/ \E t \in Tasks : launchBatches(t)
    \/ \E t \in Tasks, i \in 1..(MaxBatches + 2) : fetchBatch(t, i)
    \/ \E t \in Tasks, i \in 1..(MaxBatches + 2) : writeBatch(t, i)
    \/ \E t \in Tasks, i \in 1..(MaxBatches + 2) : failBatch(t, i)
    \/ \E t \in Tasks, i \in 1..(MaxBatches + 2) : retryBatch(t, i)
    \/ \E t \in Tasks : collectBatches(t)
    \/ \E t \in Tasks : saveRead(t)
    \/ \E t \in Tasks : saveWrite(t)
    \/ \E t \in Tasks : buildCache(t)
    \/ \E t \in Tasks : buildCacheFails(t)

SpecRun == Init /\ [][NextRun]_vars /\ WF_vars(NextRun)

(***************************************************************************)
(* buildMappingCacheEnhanced called directly, one call after the other, on *)
(* a reference table whose content changes between the calls.  The code    *)
(* column is the natural key of a reference table (uniqueColumns), so no   *)
(* two rows of a table hold the same code.                                 *)
(***************************************************************************)
CacheCodes == 1..BatchSize

CacheIds == 1..BatchSize

CacheTables ==
    {rows \in SUBSET [code : {Null} \cup CacheCodes, id : {Null} \cup CacheIds] :
        /\ Cardinality(rows) <= MaxRows
        /\ \A x, y \in rows : (x.code = y.code /\ x.code # Null) => x = y}

InitCache ==
    /\ config = [maxConcurrentTables |-> MaxTables, maxConcurrentBatches |-> MaxBatches]
    /\ options = [resumeStrategy |-> "skip-existing"]
    /\ call = NoCall
    /\ mappingCache = NoCaches
    /\ migrations = <<"C", "A", "B">>
    /\ orch = BootOrch
    /\ task = [t \in Tasks |-> IdleTask]
    /\ tableSemaphore = Semaphore(config.maxConcurrentTables)
    /\ batchSemaphore = Semaphore(config.maxConcurrentBatches)
    /\ checkpoint = NoProgress
    /\ file = NoFile
    /\ written = NothingWritten
    /\ committed = [t \in Tasks |-> {}]
    /\ faults = 0
    /\ run = 1
    /\ doneBefore = {}
    /\ savedBefore = [t \in Tasks |-> Undefined]

\* the destination tables a build can meet: missing, lacking a column, or
\* holding rows
CacheTableStates ==
    {[exists |-> FALSE, columns |-> {}, rows |-> {}]}
    \cup {[exists |-> TRUE, columns |-> c, rows |-> {}] : c \in {{"code"}, {"id"}}}
    \cup {existingTable(rows) : rows \in CacheTables}

\* buildMappingCacheEnhanced(pgPool, tableName) up to its return false, or up
\* to the await that follows mappingCache.set
callBuildMappingCacheEnhanced(tableName, table) ==
    /\ call.op # "building"
    /\ LET built == buildMappingCacheEnhanced(mappingCache, tableName, table)
       IN  /\ mappingCache' = built.cache
           /\ call' = [op |-> IF built.success THEN "building" ELSE "build",
                       tableId |-> <<tableName>>, totalProcessed |-> 0,
                       before |-> mappingCache[tableName],
                       result |-> [rows |-> table.rows, success |-> built.success,
                                   table |-> table, failed |-> FALSE]]
    /\ UNCHANGED <<config, options, migrations, orch, task, tableSemaphore,
                   batchSemaphore, checkpoint, file, written, committed, faults, run,
                   doneBefore, savedBefore>>

\* the logInfo calls after mappingCache.set are over: return true
buildMappingCacheEnhancedReturns ==
    /\ call.op = "building"
    /\ call' = [call EXCEPT !.op = "build"]
    /\ UNCHANGED <<config, options, mappingCache, migrations, orch, task, tableSemaphore,
                   batchSemaphore, checkpoint, file, written, committed, faults, run,
                   doneBefore, savedBefore>>

\* a query of the build throws: the catch returns false, no map is set
callBuildMappingCacheEnhancedFails(tableName, table) ==
    /\ call.op # "building"
    /\ call' = [op |-> "build", tableId |-> <<tableName>>, totalProcessed |-> 0,
                before |-> mappingCache[tableName],
                result |-> [rows |-> table.rows, success |-> FALSE,
                            table |-> table, failed |-> TRUE]]
    /\ UNCHANGED <<config, options, mappingCache, migrations, orch, task, tableSemaphore,
                   batchSemaphore, checkpoint, file, written, committed, faults, run,
                   doneBefore, savedBefore>>

NextCache ==
    \/ \E tableName \in {t \in Tasks : IsReference[t]}, table \in CacheTableStates :
          callBuildMappingCacheEnhanced(tableName, table)
    \/ buildMappingCacheEnhancedReturns
    \/ \E tableName \in {t \in Tasks : IsReference[t]}, table \in CacheTableStates :
          callBuildMappingCacheEnhancedFails(tableName, table)

SpecCache == InitCache /\ [][NextCache]_vars

(***************************************************************************)
(* determinePaginationStrategyForMigration called directly.  A query of    *)
(* the source either fails or answers; estimateTableRowCount and           *)
(* checkIndexExists catch the failure of their own query.                  *)
(***************************************************************************)
\* determineBestPaginationStrategy: above this estimate, offset
MediumTable == 100000

\* determineBestPaginationStrategy: above this estimate and with an index, cursor
LargeTable == 1000000

determineBestPaginationStrategy(totalEstimatedRows, hasIndexOnOrderColumn) ==
    IF totalEstimatedRows > LargeTable /\ hasIndexOnOrderColumn THEN "cursor"
    ELSE IF totalEstimatedRows > MediumTable THEN "offset"
    ELSE "rownum"

\* estimateTableRowCount: the count <<n>> the source answers, 0 when its query
\* fails (Undefined)
estimateTableRowCount(rows) == IF rows = Undefined THEN 0 ELSE rows[1]

\* checkIndexExists: false when its query fails
checkIndexExists(index) == IF index = "fails" THEN FALSE ELSE index = "yes"

\* determinePaginationStrategyForMigration.  pinned: migration.paginationStrategy;
\* tableMatch: the FROM pattern matches the query; rows, index: what the source
\* answers to the estimate and to the index check
determinePaginationStrategyForMigration(pinned, configured, cursorColumn, tableMatch, rows, index) ==
    IF pinned # Undefined
    THEN [strategy |-> pinned[1], cursorColumn |-> cursorColumn, raised |-> FALSE]
    ELSE IF configured # "rownum"
    THEN [strategy |-> configured, cursorColumn |-> <<"ID">>, raised |-> FALSE]
    ELSE IF ~tableMatch
    THEN [strategy |-> "rownum", cursorColumn |-> Undefined, raised |-> FALSE]
    ELSE LET estimatedRows == estimateTableRowCount(rows)
             hasIndex == IF cursorColumn # Undefined THEN checkIndexExists(index)
                         ELSE FALSE
         IN  [strategy |-> determineBestPaginationStrategy(estimatedRows, hasIndex),
              cursorColumn |-> cursorColumn, raised |-> FALSE]

Strategies == {"rownum", "offset", "cursor"}

\* estimates on both sides of the two thresholds
RowEstimates == {0, MediumTable, MediumTable + 1, LargeTable, LargeTable + 1}

InitPagination ==
    /\ config = [maxConcurrentTables |-> MaxTables, maxConcurrentBatches |-> MaxBatches]
    /\ options = [resumeStrategy |-> "skip-existing"]
    /\ call = NoCall
    /\ mappingCache = NoCaches
    /\ migrations = <<"C", "A", "B">>
    /\ orch = BootOrch
    /\ task = [t \in Tasks |-> IdleTask]
    /\ tableSemaphore = Semaphore(config.maxConcurrentTables)
    /\ batchSemaphore = Semaphore(config.maxConcurrentBatches)
    /\ checkpoint = NoProgress
    /\ file = NoFile
    /\ written = NothingWritten
    /\ committed = [t \in Tasks |-> {}]
    /\ faults = 0
    /\ run = 1
    /\ doneBefore = {}
    /\ savedBefore = [t \in Tasks |-> Undefined]

callDeterminePaginationStrategy(pinned, configured, cursorColumn, tableMatch, rows, index) ==
    /\ call' = [op |-> "strategy", tableId |-> Undefined, totalProcessed |-> 0,
                before |-> [pinned |-> pinned, configured |-> configured,
                            cursorColumn |-> cursorColumn, tableMatch |-> tableMatch,
                            rows |-> rows, index |-> index],
                result |-> determinePaginationStrategyForMigration(
                               pinned, configured, cursorColumn, tableMatch, rows, index)]
    /\ UNCHANGED <<config, options, mappingCache, migrations, orch, task, tableSemaphore,
                   batchSemaphore, checkpoint, file, written, committed, faults, run,
                   doneBefore, savedBefore>>

NextPagination ==
    \E pinned \in {Undefined} \cup {<<x>> : x \in Strategies},
       configured \in Strategies,
       cursorColumn \in {Undefined, <<"ID">>},
       tableMatch \in BOOLEAN,
       rows \in {Undefined} \cup {<<n>> : n \in RowEstimates},
       index \in {"fails", "yes", "no"} :
        callDeterminePaginationStrategy(pinned, configured, cursorColumn, tableMatch,
                                        rows, index)

SpecPagination == InitPagination /\ [][NextPagination]_vars

(***************************************************************************)
(* ConcurrentMigrator (src/src/migration/concurrent-migrator.ts), the      *)
(* orchestrator runMigration of migration/runner constructs.  Its          *)
(* migrateTableInternal, processBatchesConcurrently and processBatch are   *)
(* the statements of the functions above, so the task and batch actions    *)
(* are shared; the orchestration and the cache step differ.                *)
(***************************************************************************)
\* `table_${index}`, index counted from 0 in the sorted list
classTableId(sorted, t) == <<"table_", IndexOf(sorted, t) - 1>>

\* runMigration: loadCheckpoint, new ConcurrentMigrator, then
\* migrateTablesConcurrently up to the await of Promise.allSettled: every task
\* is called and runs synchronously into tableSemaphore.acquire()
classMigrateTablesConcurrently ==
    /\ orch.pc = "boot"
    /\ checkpoint' = loadCheckpoint(file).tableProgress
    /\ batchSemaphore' = Semaphore(config.maxConcurrentBatches)
    /\ LET sortedMigrations == sortByPriority(migrations)
           sem == acquireAll(Semaphore(config.maxConcurrentTables), sortedMigrations)
       IN  /\ tableSemaphore' = sem
           /\ task' = [t \in Tasks |->
                         IF t \in Range(sortedMigrations)
                         THEN [task[t] EXCEPT
                                 !.pc = IF t \in Range(sem.waiting)
                                        THEN "queued" ELSE "admitted",
                                 !.tableId = classTableId(sortedMigrations, t)]
                         ELSE task[t]]
           /\ orch' = [orch EXCEPT !.pc = "awaiting", !.loaded = file.state,
                                   !.sorted = sortedMigrations]
    /\ UNCHANGED <<config, call, options, mappingCache, committed, migrations, file, written, faults, run, doneBefore,
                   savedBefore>>

\* onTableCompleted catches every failure of the cache build: the task is
\* fulfilled whatever buildMappingCache returns
onTableCompleted(t) ==
    /\ task[t].pc = "cache"
    /\ settle(task, t, "fulfilled")
    /\ UNCHANGED <<config, call, options, mappingCache, committed, migrations, orch, batchSemaphore, checkpoint, file,
                   written, faults, run, doneBefore, savedBefore>>

\* Promise.allSettled over all tasks has resolved
classSettled ==
    /\ orch.pc = "awaiting"
    /\ LET all == Range(orch.sorted)
           failures == {t \in all : task[t].pc = "rejected"}
       IN  /\ allSettled(all)
           /\ orch' = IF failures # {}
                      THEN [orch EXCEPT
                              !.pc = "raised",
                              !.errors = Append(@, [failed |-> Cardinality(failures),
                                                    priority |-> 0])]
                      ELSE [orch EXCEPT !.pc = "done"]
    /\ UNCHANGED <<config, call, options, mappingCache, committed, migrations, task, tableSemaphore, batchSemaphore,
                   checkpoint, file, written, faults, run, doneBefore, savedBefore>>

NextClass ==
    \/ classMigrateTablesConcurrently
    \/ classSettled
    \/ \E t \in Tasks : beginTable(t)
    \/ \E t \in Tasks : launchBatches(t)
    \/ \E t \in Tasks, i \in 1..(MaxBatches + 2) : fetchBatch(t, i)
    \/ \E t \in Tasks, i \in 1..(MaxBatches + 2) : writeBatch(t, i)
    \/ \E t \in Tasks, i \in 1..(MaxBatches + 2) : failBatch(t, i)
    \/ \E t \in Tasks, i \in 1..(MaxBatches + 2) : retryBatch(t, i)
    \/ \E t \in Tasks : collectBatches(t)
    \/ \E t \in Tasks : saveRead(t)
    \/ \E t \in Tasks : saveWrite(t)
    \/ \E t \in Tasks : onTableCompleted(t)

SpecClass == Init /\ [][NextClass]_vars

(***************************************************************************)
(* The enhanced migration script (src/package.json) and                    *)
(* migrateTableEnhanced (src/src/migration/enhanced-migration.ts).  Tasks  *)
(* of one priority run concurrently without a gate; each task reads pages  *)
(* one after the other and saves its progress under its tableId.           *)
(* pc of a task: status (resumeMigration pending), progress                *)
(* (getTableProgress pending), fetch, insert, bulk (table cleared, insert  *)
(* pending), ckRead / ckWrite (inside saveCheckpoint), markRead /          *)
(* markWrite (inside markTableComplete), fulfilled, rejected.              *)
(***************************************************************************)
ResumeStrategies == {"skip-existing", "upsert", "fresh-start", "append-only"}

\* migration.tableId
enhancedTableId(t) == <<t>>

\* uniqueColumns.map(col => record[col]).join("|"): NULL becomes the empty
\* string, modelled as <<>>; another value v becomes <<v>>
recordKey(t, r) == IF SourceKey(t, r) = Null THEN <<>> ELSE <<SourceKey(t, r)>>

\* getExistingRecordIds: the keys of the page for which a destination row d has
\* d.col = split_part(check_key, '|', 1); a NULL column equals nothing
getExistingRecordIds(dest, t, records) ==
    {recordKey(t, r) : r \in {x \in records :
        \E d \in DOMAIN dest :
            /\ dest[d] > 0
            /\ SourceKey(t, d) # Null
            /\ <<SourceKey(t, d)>> = recordKey(t, x)}}

\* bulkInsert: one INSERT of all records
bulkInsert(dest, records) ==
    [rows |-> [d \in DOMAIN dest |-> IF d \in records THEN dest[d] + 1 ELSE dest[d]],
     inserted |-> Cardinality(records), skipped |-> 0, updated |-> 0]

\* bulkUpsert: one INSERT ... ON CONFLICT (key) DO UPDATE per record, in page
\* order; a conflicting row takes the content of the record
RECURSIVE bulkUpsert(_, _, _, _)
bulkUpsert(dest, t, records, inserted) ==
    IF records = {} THEN [rows |-> dest, inserted |-> inserted]
    ELSE LET r == CHOOSE x \in records : \A y \in records : x <= y
             conflicting == {d \in DOMAIN dest :
                               /\ dest[d] > 0
                               /\ SourceKey(t, d) # Null
                               /\ SourceKey(t, d) = SourceKey(t, r)}
             held == SumSeq([d \in DOMAIN dest |->
                               IF d \in conflicting THEN dest[d] ELSE 0])
         IN  IF conflicting # {}
             THEN bulkUpsert([d \in DOMAIN dest |->
                                IF d = r THEN held
                                ELSE IF d \in conflicting THEN 0 ELSE dest[d]],
                             t, records \ {r}, inserted)
             ELSE bulkUpsert([dest EXCEPT ![r] = @ + 1], t, records \ {r},
                             inserted + 1)

\* insertWithDuplicatePrevention on a destination table that, for fresh-start,
\* clearTable has already emptied
insertWithDuplicatePrevention(dest, t, records, resumeStrategy) ==
    IF resumeStrategy = "skip-existing"
    THEN LET existingKeys == getExistingRecordIds(dest, t, records)
             newRecords == {r \in records : recordKey(t, r) \notin existingKeys}
             skipped == Cardinality(records) - Cardinality(newRecords)
             result == bulkInsert(dest, newRecords)
         IN  [rows |-> result.rows, inserted |-> result.inserted,
              skipped |-> skipped, updated |-> 0]
    ELSE IF resumeStrategy = "upsert"
    THEN LET result == bulkUpsert(dest, t, records, 0)
         IN  [rows |-> result.rows, inserted |-> result.inserted, skipped |-> 0,
              updated |-> Cardinality(records) - result.inserted]
    ELSE bulkInsert(dest, records)

\* offset += oracleData.length, with the batch size in place of the page length
nextOffsetByBatchSize(offset, oracleData) == offset + BatchSize

\* offset += oracleData.length
nextOffset(offset, oracleData) == offset + Cardinality(oracleData)

tableEntry(data, t) ==
    IF enhancedTableId(t) \in DOMAIN data.tableProgress
    THEN <<data.tableProgress[enhancedTableId(t)]>> ELSE Undefined

InitEnhanced ==
    /\ config = [maxConcurrentTables |-> MaxTables, maxConcurrentBatches |-> MaxBatches]
    /\ options \in [resumeStrategy : ResumeStrategies]
    /\ call = NoCall
    /\ mappingCache = NoCaches
    /\ migrations = <<"C", "A", "B">>
    /\ orch = BootOrch
    /\ task = [t \in Tasks |-> IdleTask]
    /\ tableSemaphore = Semaphore(config.maxConcurrentTables)
    /\ batchSemaphore = Semaphore(config.maxConcurrentBatches)
    /\ checkpoint = NoProgress
    /\ file = NoFile
    /\ written = NothingWritten
    /\ committed = [t \in Tasks |-> {}]
    /\ faults = 0
    /\ run = 1
    /\ doneBefore = {}
    /\ savedBefore = [t \in Tasks |-> Undefined]

\* main of the script: a fresh start clears the checkpoint; then the head of
\* runEnhancedMigrationByPriority groups the tasks in the order given
enhancedMain ==
    /\ orch.pc = "boot"
    /\ file' = IF options.resumeStrategy = "fresh-start" THEN NoFile ELSE file
    /\ orch' = [orch EXCEPT !.pc = "groups", !.loaded = file'.state,
                            !.sorted = migrations,
                            !.todo = sortedPriorities(sortByPriority(migrations))]
    /\ UNCHANGED <<config, call, options, mappingCache, committed, migrations, task, tableSemaphore,
                   batchSemaphore, checkpoint, written, faults, run, doneBefore,
                   savedBefore>>

\* one turn of the for loop up to the await of Promise.allSettled: every task of
\* the group enters runSingleEnhancedMigration
startEnhancedGroup ==
    /\ orch.pc = "groups"
    /\ orch.todo # <<>>
    /\ LET priority == Head(orch.todo)
           group == Range(groupMigrations(orch.sorted, priority))
       IN  /\ task' = [t \in Tasks |->
                         IF t \in group
                         THEN [task[t] EXCEPT !.pc = "status",
                                              !.tableId = enhancedTableId(t)]
                         ELSE task[t]]
           /\ orch' = [orch EXCEPT !.pc = "awaiting", !.priority = priority,
                                   !.todo = Tail(@)]
    /\ UNCHANGED <<config, call, options, mappingCache, committed, migrations, tableSemaphore,
                   batchSemaphore, checkpoint, file, written, faults, run,
                   doneBefore, savedBefore>>

\* resumeMigration: a task the checkpoint file holds as complete is not run
resumeMigration(t) ==
    /\ task[t].pc = "status"
    /\ LET entry == tableEntry(loadCheckpoint(file), t)
           isComplete == entry # Undefined /\ entry[1].isComplete
       IN  task' = [task EXCEPT ![t].pc = IF isComplete THEN "fulfilled" ELSE "progress"]
    /\ UNCHANGED <<config, call, options, mappingCache, committed, migrations, orch, tableSemaphore,
                   batchSemaphore, checkpoint, file, written, faults, run,
                   doneBefore, savedBefore>>

\* getTableProgress: offset and totalProcessed of the entry, or 0
getTableProgress(t) ==
    /\ task[t].pc = "progress"
    /\ LET entry == tableEntry(loadCheckpoint(file), t)
           offset == IF entry # Undefined THEN entry[1].lastProcessedId ELSE 0
           totalProcessed == IF entry # Undefined THEN entry[1].totalProcessed ELSE 0
       IN  task' = [task EXCEPT ![t] =
                      [@ EXCEPT !.pc = "fetch", !.offset = offset,
                                !.batchNumber = 0,
                                !.tableProgress = [NewProgress EXCEPT
                                                     !.totalProcessed = totalProcessed],
                                !.first = <<offset, Undefined>>]]
    /\ UNCHANGED <<config, call, options, mappingCache, committed, migrations, orch, tableSemaphore,
                   batchSemaphore, checkpoint, file, written, faults, run,
                   doneBefore, savedBefore>>

\* fetchOracleData returns the ROWNUM window; an empty page ends the loop and
\* markTableComplete runs into its readFile
fetchOracleData(t) ==
    /\ task[t].pc = "fetch"
    /\ LET oracleData == fetchRows(t, "rownum", task[t].offset, Undefined)
       IN  task' = [task EXCEPT ![t] =
                      IF oracleData = {}
                      THEN [@ EXCEPT !.pc = "markRead"]
                      ELSE [@ EXCEPT !.pc = "insert", !.page = oracleData]]
    /\ UNCHANGED <<config, call, options, mappingCache, committed, migrations, orch, tableSemaphore,
                   batchSemaphore, checkpoint, file, written, faults, run,
                   doneBefore, savedBefore>>

\* fresh-start: clearTable deletes every row of the table before each insert
clearTable(t) ==
    /\ task[t].pc = "insert"
    /\ options.resumeStrategy = "fresh-start"
    /\ written' = [written EXCEPT ![t] = [d \in DOMAIN @ |-> 0]]
    /\ task' = [task EXCEPT ![t].pc = "bulk"]
    /\ UNCHANGED <<config, call, options, mappingCache, committed, migrations, orch, tableSemaphore,
                   batchSemaphore, checkpoint, file, faults, run, doneBefore,
                   savedBefore>>

\* the insert of the page commits; totalProcessed and offset move on and
\* saveCheckpoint runs into its readFile
insertPage(t) ==
    /\ \/ task[t].pc = "insert" /\ options.resumeStrategy # "fresh-start"
       \/ task[t].pc = "bulk"
    /\ LET result == insertWithDuplicatePrevention(written[t], t, task[t].page,
                                                   options.resumeStrategy)
       IN  /\ written' = [written EXCEPT ![t] = result.rows]
           /\ committed' = [committed EXCEPT ![t] = @ \cup task[t].page]
           /\ task' = [task EXCEPT ![t] =
                         [@ EXCEPT !.pc = "ckRead",
                                   !.offset = nextOffset(@, task[t].page),
                                   !.batchNumber = @ + 1,
                                   !.tableProgress.totalProcessed = @ + result.inserted,
                                   !.tableProgress.lastProcessedRecord =
                                       <<Max(task[t].page)>>]]
    /\ UNCHANGED <<config, call, options, mappingCache, migrations, orch, tableSemaphore, batchSemaphore,
                   checkpoint, file, faults, run, doneBefore, savedBefore>>

\* the source read or the insert throws: the loop's catch rethrows and the
\* task is rejected
enhancedBatchFails(t) ==
    /\ task[t].pc \in {"fetch", "insert", "bulk"}
    /\ faults < MaxFaults
    /\ faults' = faults + 1
    /\ task' = [task EXCEPT ![t].pc = "rejected", ![t].page = {}]
    /\ UNCHANGED <<config, call, options, mappingCache, committed, migrations, orch, tableSemaphore,
                   batchSemaphore, checkpoint, file, written, run, doneBefore,
                   savedBefore>>

\* saveCheckpoint: readFile and JSON.parse have returned (or thrown)
saveCheckpointRead(t) ==
    /\ task[t].pc = "ckRead"
    /\ task' = [task EXCEPT ![t] = [@ EXCEPT !.pc = "ckWrite",
                                             !.data = readCheckpoint(file)]]
    /\ UNCHANGED <<config, call, options, mappingCache, committed, migrations, orch, tableSemaphore,
                   batchSemaphore, checkpoint, file, written, faults, run,
                   doneBefore, savedBefore>>

\* saveCheckpoint(checkpointFile, offset, totalProcessed, tableId, lastRecord):
\* writeFile has returned; the loop goes on with the next page
saveCheckpointWrite(t) ==
    /\ task[t].pc = "ckWrite"
    /\ file' = [state |-> "ok",
                data |-> updateCheckpoint(task[t].data, task[t].offset,
                                          task[t].tableProgress.totalProcessed,
                                          task[t].tableId,
                                          task[t].tableProgress.lastProcessedRecord)]
    /\ task' = [task EXCEPT ![t] =
                  [@ EXCEPT !.pc = "fetch", !.page = {}, !.data = FreshCheckpoint,
                            !.saved = <<task[t].offset, Undefined>>]]
    /\ UNCHANGED <<config, call, options, mappingCache, committed, migrations, orch, tableSemaphore,
                   batchSemaphore, checkpoint, written, faults, run, doneBefore,
                   savedBefore>>

\* mkdir or writeFile throws and the error reaches the batch loop
saveCheckpointRaises(t) ==
    /\ task[t].pc \in {"ckRead", "ckWrite"}
    /\ faults < MaxFaults
    /\ faults' = faults + 1
    /\ file' \in IF task[t].pc = "ckWrite" THEN {file, CorruptFile} ELSE {file}
    /\ task' = [task EXCEPT ![t] =
                  [@ EXCEPT !.pc = "rejected", !.page = {}, !.data = FreshCheckpoint]]
    /\ UNCHANGED <<config, call, options, mappingCache, committed, migrations, orch, tableSemaphore,
                   batchSemaphore, checkpoint, written, run, doneBefore, savedBefore>>

\* mkdir or writeFile throws: saveCheckpoint logs a warning and returns; a
\* failed writeFile can leave the file unparsable
saveCheckpointFails(t) ==
    /\ task[t].pc \in {"ckRead", "ckWrite"}
    /\ faults < MaxFaults
    /\ faults' = faults + 1
    /\ file' \in IF task[t].pc = "ckWrite" THEN {file, CorruptFile} ELSE {file}
    /\ task' = [task EXCEPT ![t] =
                  [@ EXCEPT !.pc = "fetch", !.page = {}, !.data = FreshCheckpoint]]
    /\ UNCHANGED <<config, call, options, mappingCache, committed, migrations, orch, tableSemaphore,
                   batchSemaphore, checkpoint, written, run, doneBefore, savedBefore>>

\* markTableComplete: readFile has returned; nothing is written without a
\* readable file or without an entry of the task
markTableCompleteRead(t) ==
    /\ task[t].pc = "markRead"
    /\ task' = [task EXCEPT ![t] =
                  IF file.state = "ok" /\ tableEntry(file.data, t) # Undefined
                  THEN [@ EXCEPT !.pc = "markWrite", !.data = file.data]
                  ELSE [@ EXCEPT !.pc = "fulfilled"]]
    /\ UNCHANGED <<config, call, options, mappingCache, committed, migrations, orch, tableSemaphore,
                   batchSemaphore, checkpoint, file, written, faults, run,
                   doneBefore, savedBefore>>

\* markTableComplete: writeFile has returned; migrateTableEnhanced returns
markTableCompleteWrite(t) ==
    /\ task[t].pc = "markWrite"
    /\ file' = [state |-> "ok",
                data |-> [task[t].data EXCEPT
                            !.tableProgress[task[t].tableId] =
                                [@ EXCEPT !.isComplete = TRUE,
                                          !.totalProcessed =
                                              task[t].tableProgress.totalProcessed]]]
    /\ task' = [task EXCEPT ![t] =
                  [@ EXCEPT !.pc = "fulfilled", !.data = FreshCheckpoint,
                            !.tableProgress.isComplete = TRUE]]
    /\ UNCHANGED <<config, call, options, mappingCache, committed, migrations, orch, tableSemaphore,
                   batchSemaphore, checkpoint, written, faults, run, doneBefore,
                   savedBefore>>

\* writeFile of markTableComplete throws: the call logs a warning and returns,
\* and migrateTableEnhanced returns; the failed write can leave the file
\* unparsable
markTableCompleteFails(t) ==
    /\ task[t].pc = "markWrite"
    /\ faults < MaxFaults
    /\ faults' = faults + 1
    /\ file' \in {file, CorruptFile}
    /\ task' = [task EXCEPT ![t] = [@ EXCEPT !.pc = "fulfilled", !.data = FreshCheckpoint]]
    /\ UNCHANGED <<config, call, options, mappingCache, committed, migrations, orch, tableSemaphore,
                   batchSemaphore, checkpoint, written, run, doneBefore, savedBefore>>

NextEnhanced ==
    \/ enhancedMain
    \/ startEnhancedGroup
    \/ groupSettled
    \/ finish
    \/ \E t \in Tasks : resumeMigration(t)
    \/ \E t \in Tasks : getTableProgress(t)
    \/ \E t \in Tasks : fetchOracleData(t)
    \/ \E t \in Tasks : clearTable(t)
    \/ \E t \in Tasks : insertPage(t)
    \/ \E t \in Tasks : enhancedBatchFails(t)
    \/ \E t \in Tasks : saveCheckpointRead(t)
    \/ \E t \in Tasks : saveCheckpointWrite(t)
    \/ \E t \in Tasks : saveCheckpointFails(t)
    \/ \E t \in Tasks : markTableCompleteRead(t)
    \/ \E t \in Tasks : markTableCompleteWrite(t)
    \/ \E t \in Tasks : markTableCompleteFails(t)
    \/ restart

SpecEnhanced == InitEnhanced /\ [][NextEnhanced]_vars

\* the script run on a task list that holds a task with an empty source
InitEnhancedEmpty ==
    /\ config = [maxConcurrentTables |-> MaxTables, maxConcurrentBatches |-> MaxBatches]
    /\ options \in [resumeStrategy : ResumeStrategies]
    /\ call = NoCall
    /\ mappingCache = NoCaches
    /\ migrations = <<"D", "C">>
    /\ orch = BootOrch
    /\ task = [t \in Tasks |-> IdleTask]
    /\ tableSemaphore = Semaphore(config.maxConcurrentTables)
    /\ batchSemaphore = Semaphore(config.maxConcurrentBatches)
    /\ checkpoint = NoProgress
    /\ file = NoFile
    /\ written = NothingWritten
    /\ committed = [t \in Tasks |-> {}]
    /\ faults = 0
    /\ run = 1
    /\ doneBefore = {}
    /\ savedBefore = [t \in Tasks |-> Undefined]

SpecEnhancedEmpty == InitEnhancedEmpty /\ [][NextEnhanced]_vars

(***************************************************************************)
(* The checkpoint store called directly (src/src/data/checkpoint.ts): each *)
(* call runs from its readFile to its writeFile with no other call in      *)
(* between.  The file starts missing, unparsable or holding a document.    *)
(***************************************************************************)
\* saveCheckpoint, run without interleaving and without an I/O error
saveCheckpoint(f, lastProcessedId, totalProcessed, tableId, lastProcessedRecord) ==
    [state |-> "ok",
     data |-> updateCheckpoint(readCheckpoint(f), lastProcessedId, totalProcessed,
                               tableId, lastProcessedRecord)]

\* markTableComplete adding the total to the entry's total
completeEntryAdding(data, tableId, totalProcessed) ==
    [data EXCEPT !.tableProgress[tableId] =
        [@ EXCEPT !.isComplete = TRUE, !.totalProcessed = @ + totalProcessed]]

\* the update markTableComplete applies to the entry it has found
completeEntry(data, tableId, totalProcessed) ==
    [data EXCEPT !.tableProgress[tableId] =
        [@ EXCEPT !.isComplete = TRUE, !.totalProcessed = totalProcessed]]

\* markTableComplete, run without interleaving and without an I/O error: it
\* returns without writing when the file cannot be read or holds no entry
markTableComplete(f, tableId, totalProcessed) ==
    IF f.state = "ok" /\ tableId \in DOMAIN f.data.tableProgress
    THEN [state |-> "ok", data |-> completeEntry(f.data, tableId, totalProcessed)]
    ELSE f

\* the task identifiers and counts the calls are made with
StoreIds == {<<"A">>, <<"B">>}

StoreCounts == {0, BatchSize}

StoredDocuments ==
    {FreshCheckpoint,
     updateCheckpoint(FreshCheckpoint, BatchSize, BatchSize, <<"A">>, Undefined),
     updateCheckpoint(FreshCheckpoint, BatchSize, 0, <<"B">>, Undefined)}

InitCheckpoint ==
    /\ config = [maxConcurrentTables |-> MaxTables, maxConcurrentBatches |-> MaxBatches]
    /\ options = [resumeStrategy |-> "skip-existing"]
    /\ call = NoCall
    /\ mappingCache = NoCaches
    /\ migrations = <<"C", "A", "B">>
    /\ orch = BootOrch
    /\ task = [t \in Tasks |-> IdleTask]
    /\ tableSemaphore = Semaphore(config.maxConcurrentTables)
    /\ batchSemaphore = Semaphore(config.maxConcurrentBatches)
    /\ checkpoint = NoProgress
    /\ file \in {NoFile} \cup [state : {"corrupt", "ok"}, data : StoredDocuments]
    /\ written = NothingWritten
    /\ committed = [t \in Tasks |-> {}]
    /\ faults = 0
    /\ run = 1
    /\ doneBefore = {}
    /\ savedBefore = [t \in Tasks |-> Undefined]

callLoadCheckpoint ==
    /\ call' = [op |-> "load", tableId |-> Undefined, totalProcessed |-> 0,
                before |-> file, result |-> loadCheckpoint(file)]
    /\ UNCHANGED <<config, options, mappingCache, migrations, orch, task, tableSemaphore,
                   batchSemaphore, checkpoint, file, written, committed, faults, run,
                   doneBefore, savedBefore>>

callSaveCheckpoint(lastProcessedId, totalProcessed, tableId) ==
    /\ file' = saveCheckpoint(file, lastProcessedId, totalProcessed, tableId, Undefined)
    /\ call' = [op |-> "save", tableId |-> tableId, totalProcessed |-> totalProcessed,
                before |-> file, result |-> FreshCheckpoint]
    /\ UNCHANGED <<config, options, mappingCache, migrations, orch, task, tableSemaphore,
                   batchSemaphore, checkpoint, written, committed, faults, run,
                   doneBefore, savedBefore>>

callMarkTableComplete(tableId, totalProcessed) ==
    /\ file' = markTableComplete(file, tableId, totalProcessed)
    /\ call' = [op |-> "mark", tableId |-> tableId, totalProcessed |-> totalProcessed,
                before |-> file, result |-> FreshCheckpoint]
    /\ UNCHANGED <<config, options, mappingCache, migrations, orch, task, tableSemaphore,
                   batchSemaphore, checkpoint, written, committed, faults, run,
                   doneBefore, savedBefore>>

NextCheckpoint ==
    \/ callLoadCheckpoint
    \/ \E lastProcessedId \in StoreCounts, totalProcessed \in StoreCounts,
          tableId \in StoreIds \cup {Undefined} :
          callSaveCheckpoint(lastProcessedId, totalProcessed, tableId)
    \/ \E tableId \in StoreIds, totalProcessed \in StoreCounts :
          callMarkTableComplete(tableId, totalProcessed)

SpecCheckpoint == InitCheckpoint /\ [][NextCheckpoint]_vars

(***************************************************************************)
(* Properties of the priority-group orchestrator (Spec).                   *)
(***************************************************************************)
InFlight(t) ==
    \E i \in DOMAIN task[t].jobs : task[t].jobs[i].st \in {"wait", "fetch", "write", "caught"}

C2_GroupFailure ==
    /\ Len(orch.errors) <= 1
    /\ (orch.pc = "raised") = (Len(orch.errors) = 1)
    /\ (\E t \in Tasks : task[t].pc = "rejected") => orch.pc \in {"awaiting", "raised"}
    /\ \A t \in Tasks, u \in Tasks :
          (task[t].pc = "rejected" /\ Priority[t] < Priority[u]) => task[u].pc = "idle"
    /\ orch.pc = "raised" =>
          LET error == orch.errors[1]
              group == {t \in Range(orch.sorted) : Priority[t] = error.priority}
          IN  /\ error.priority = orch.priority
              /\ \A t \in group : task[t].pc \in {"fulfilled", "rejected"}
              /\ error.failed = Cardinality({t \in group : task[t].pc = "rejected"})
              /\ error.failed >= 1

\* the error is raised for a group with one failed and one successful task
C2_Witness ==
    /\ orch.pc = "raised"
    /\ orch.errors = <<[failed |-> 1, priority |-> 1]>>
    /\ task["B"].pc = "rejected"
    /\ task["A"].pc = "fulfilled"

\* C3: at most config.maxConcurrentTables tasks are between acquiring and
\* releasing the table gate.
C3_TableGate == Cardinality(TableHolders) <= config.maxConcurrentTables

\* the gate is full and a task of the same group waits at it
C3_Witness ==
    /\ Cardinality(TableHolders) = config.maxConcurrentTables
    /\ \E t \in Tasks : task[t].pc = "queued"
    /\ \E t \in TableHolders : task[t].pc = "batches"

\* C4: at most config.maxConcurrentBatches batches, over all running tasks, are
\* inside processBatch's section between acquire and release.
C4_BatchGate == Cardinality(BatchHolders) <= config.maxConcurrentBatches

\* a task whose own maxConcurrentBatches exceeds the global value has one
\* batch inside the section and one waiting at the gate
C4_Witness ==
    /\ \E t \in Tasks :
          /\ TaskBatches[t] > config.maxConcurrentBatches
          /\ \E i \in DOMAIN task[t].jobs : task[t].jobs[i].st = "write"
          /\ \E i \in DOMAIN task[t].jobs : task[t].jobs[i].st = "wait"
    /\ Cardinality(BatchHolders) = config.maxConcurrentBatches

(***************************************************************************)
(* Properties of ConcurrentMigrator (SpecClass).                           *)
(***************************************************************************)
\* C5: in ConcurrentMigrator.migrateTablesConcurrently, for every value of
\* maxConcurrentTables, no batch of a task has begun while a task with a
\* smaller priority number has not settled.
C5_ClassInOrder ==
    \A u \in Tasks :
        task[u].batchNumber > 0 =>
            \A t \in Tasks : Priority[t] < Priority[u] => Settled(t)

(***************************************************************************)
(* Properties of a restart of migrateTablesConcurrently (Spec).            *)
(***************************************************************************)
\* C7: a run started from the checkpoint file an earlier run wrote launches no
\* batch for a task that completed in the earlier run.
C7_CompletedSkipped ==
    orch.loaded = "ok" => \A t \in doneBefore : task[t].batchNumber = 0

\* C8: the first batch a restarted run issues for a task that was part-way
\* through uses the offset and cursor value handed to the task's last finished
\* checkpoint save.
C8_ResumeFromSaved ==
    orch.loaded = "ok" =>
        \A t \in Tasks :
            (savedBefore[t] # Undefined /\ task[t].first # Undefined)
                => task[t].first = savedBefore[t]

(***************************************************************************)
(* Properties of the enhanced migration (SpecEnhanced).                    *)
(***************************************************************************)
\* destination rows of a task after migrateTableEnhanced has run from offset
\* to the end of the source without interruption
RECURSIVE uninterrupted(_, _, _, _)
uninterrupted(dest, t, offset, resumeStrategy) ==
    LET oracleData == fetchRows(t, "rownum", offset, Undefined)
        cleared == IF resumeStrategy = "fresh-start"
                   THEN [d \in DOMAIN dest |-> 0] ELSE dest
    IN  IF oracleData = {} THEN dest
        ELSE uninterrupted(
                 insertWithDuplicatePrevention(cleared, t, oracleData, resumeStrategy).rows,
                 t, nextOffset(offset, oracleData), resumeStrategy)

\* number of destination rows of task t that hold natural key k
rowsWithKey(t, k) ==
    SumSeq([d \in DOMAIN written[t] |->
              IF recordKey(t, d) = k THEN written[t][d] ELSE 0])

\* C6: with resume strategy skip-existing or upsert, when a restarted run of
\* the enhanced migration has ended, every task's destination table holds the
\* rows an uninterrupted run leaves, and no natural key is held by more than
\* one destination row.
C6_RestartEquivalent ==
    (/\ options.resumeStrategy \in {"skip-existing", "upsert"}
     /\ run > 1
     /\ orch.pc = "done")
        => \A t \in Tasks :
              /\ written[t] = uninterrupted(NothingWritten[t], t, 0, options.resumeStrategy)
              /\ \A d \in DOMAIN written[t] : rowsWithKey(t, recordKey(t, d)) <= 1

\* the offset of the task's entry in the checkpoint file, 0 without an entry
persistedOffset(t) ==
    IF tableEntry(readCheckpoint(file), t) = Undefined THEN 0
    ELSE tableEntry(readCheckpoint(file), t)[1].lastProcessedId

\* C9: in migrateTableEnhanced the offset persisted for a task never exceeds
\* the number of source rows whose page has been written: every source row
\* before the persisted offset is in a page that was committed to the
\* destination, and a task never reads from an offset past such a row.  A
\* restart may read again every page written since the last save that took
\* effect.
C9_PersistedOffsetWritten ==
    \A t \in Tasks :
        /\ persistedOffset(t) <= Cardinality(committed[t])
        /\ 1..persistedOffset(t) \subseteq committed[t]
        /\ task[t].pc \in {"fetch", "insert", "bulk"}
              => 1..task[t].offset \subseteq committed[t]

\* a restarted run is about to read from the offset persisted before the restart
C9_Witness ==
    /\ run > 1
    /\ task["A"].pc = "fetch"
    /\ task["A"].batchNumber = 0
    /\ task["A"].first # Undefined
    /\ task["A"].first[1] > 0
    /\ persistedOffset("A") = task["A"].first[1]
    /\ task["A"].offset = persistedOffset("A")

\* C9 as stated: in addition, the rows written beyond the persisted offset
\* are at most one page.
C9_AtMostOnePage ==
    \A t \in Tasks :
        /\ persistedOffset(t) <= Cardinality(committed[t])
        /\ Cardinality(committed[t]) - persistedOffset(t) <= BatchSize

\* C10: when two tasks of one group have each returned from their first
\* saveCheckpoint call, both calls having written the file, the checkpoint
\* document holds the entry of each.
C10_BothEntriesKept ==
    \A t \in Tasks, u \in Tasks :
        (/\ t # u
         /\ run = 1
         /\ task[t].pc = "fetch" /\ task[t].batchNumber = 1 /\ task[t].saved # Undefined
         /\ task[u].pc = "fetch" /\ task[u].batchNumber = 1 /\ task[u].saved # Undefined)
            => /\ file.state = "ok"
               /\ tableEntry(file.data, t) # Undefined
               /\ tableEntry(file.data, u) # Undefined

(***************************************************************************)
(* Properties of the checkpoint store (SpecCheckpoint, SpecEnhanced).      *)
(***************************************************************************)
\* C11: loadCheckpoint of a missing or unparsable file returns a checkpoint
\* with lastProcessedId 0, totalProcessed 0 and an empty tableProgress map.
C11_LoadNeverRaises ==
    /\ file.state \in {"missing", "corrupt"} =>
          /\ loadCheckpoint(file).lastProcessedId = 0
          /\ loadCheckpoint(file).totalProcessed = 0
          /\ loadCheckpoint(file).tableProgress = NoProgress
    /\ (call.op = "load" /\ call.before.state \in {"missing", "corrupt"}) =>
          call.result = FreshCheckpoint

\* loadCheckpoint has been called on an unparsable file whose bytes hold an
\* entry, and has returned the fresh checkpoint
C11_Witness ==
    /\ call.op = "load"
    /\ call.before.state = "corrupt"
    /\ call.before.data.tableProgress # NoProgress
    /\ call.result = FreshCheckpoint

\* C12: a saveCheckpoint call for task identifier T that runs without
\* interleaving leaves the entry of every other task identifier as it was.
C12_SaveFrame ==
    call.op = "save" =>
        /\ file.state = "ok"
        /\ \A k \in DOMAIN readCheckpoint(call.before).tableProgress \ {call.tableId} :
              /\ k \in DOMAIN file.data.tableProgress
              /\ file.data.tableProgress[k] = readCheckpoint(call.before).tableProgress[k]
        /\ DOMAIN file.data.tableProgress \subseteq
              DOMAIN readCheckpoint(call.before).tableProgress \cup {call.tableId}

\* a save for A has replaced A's entry in a document that also holds B's
C12_Witness ==
    /\ call.op = "save"
    /\ call.tableId = <<"A">>
    /\ call.before.state = "ok"
    /\ {<<"A">>, <<"B">>} \subseteq DOMAIN call.before.data.tableProgress
    /\ file.data.tableProgress[<<"A">>] # call.before.data.tableProgress[<<"A">>]

\* C14: markTableComplete called a second time with the same task identifier
\* and total leaves the document the first call left.
C14_MarkIdempotent ==
    /\ \A tableId \in StoreIds, totalProcessed \in StoreCounts :
          markTableComplete(markTableComplete(file, tableId, totalProcessed),
                            tableId, totalProcessed)
              = markTableComplete(file, tableId, totalProcessed)
    /\ call.op = "mark" =>
          markTableComplete(file, call.tableId, call.totalProcessed) = file

\* markTableComplete has completed an entry and changed its total
C14_Witness ==
    /\ call.op = "mark"
    /\ call.before.state = "ok"
    /\ call.tableId \in DOMAIN call.before.data.tableProgress
    /\ ~call.before.data.tableProgress[call.tableId].isComplete
    /\ call.before.data.tableProgress[call.tableId].totalProcessed # call.totalProcessed
    /\ call.totalProcessed > 0
    /\ file.data.tableProgress[call.tableId].isComplete

\* C13: whatever happens to the file operations inside saveCheckpoint or
\* markTableComplete, the call returns: a task inside saveCheckpoint goes on
\* to the fetch of its next batch, a task inside markTableComplete returns
\* from migrateTableEnhanced; neither is rejected.
C13_StoreErrorsSwallowed ==
    [][\A t \in Tasks :
          (run' = run /\ task'[t].pc # task[t].pc) =>
              /\ task[t].pc \in {"ckRead", "ckWrite"} => task'[t].pc \in {"ckWrite", "fetch"}
              /\ task[t].pc \in {"markRead", "markWrite"} =>
                    task'[t].pc \in {"markWrite", "fulfilled"}]_vars

\* the first save of a task failed and the task has fetched its next page
C13_Witness ==
    /\ run = 1
    /\ faults > 0
    /\ task["A"].pc = "insert"
    /\ task["A"].batchNumber = 1
    /\ task["A"].saved = Undefined
    /\ tableEntry(readCheckpoint(file), "A") = Undefined

(***************************************************************************)
(* Properties of the batch loop of migrateTableInternal (Spec).            *)
(***************************************************************************)
\* C15: migrateTableInternal stops requesting batches for a task and marks it
\* complete only after some batch of that task has returned fewer source rows
\* than the batch size (a short page or an empty one).
C15_CompleteAfterShortPage ==
    \A t \in Tasks :
        task[t].tableProgress.isComplete =>
            \E n \in task[t].returned : n < BatchSize

\* a task has been marked complete after a short page, with no batch of it
\* having returned zero rows
C15_Witness ==
    \E t \in Tasks :
        /\ task[t].tableProgress.isComplete
        /\ 0 \notin task[t].returned
        /\ \E n \in task[t].returned : 0 < n /\ n < BatchSize

\* C15 as stated: a task is marked complete only after some batch of it has
\* returned zero source rows.
C15_CompleteAfterEmptyPage ==
    \A t \in Tasks :
        task[t].tableProgress.isComplete => 0 \in task[t].returned

\* C16: for a task with offset or rownum pagination starting from a fresh
\* checkpoint, the i-th batch launched has offset (i - 1) * BatchSize, so the
\* offsets are distinct and contiguous from 0; in the run that starts with an
\* empty destination no source row is written by more than one batch, and once
\* the task is complete every source row has been written by exactly one.
C16_OffsetsContiguous ==
    \A t \in Tasks :
        PaginationStrategy[t] \in {"offset", "rownum"} =>
            /\ \A i \in DOMAIN task[t].issued :
                  task[t].issued[i][1] = (i - 1) * BatchSize
            /\ run = 1 => \A r \in DOMAIN written[t] : written[t][r] <= 1
            /\ (run = 1 /\ task[t].tableProgress.isComplete) =>
                  \A r \in DOMAIN written[t] : written[t][r] = 1

\* a task has launched two batches in one iteration and is complete with every
\* source row written once
C16_Witness ==
    /\ run = 1
    /\ task["A"].pc = "fulfilled"
    /\ Len(task["A"].issued) >= 2
    /\ task["A"].issued[2][1] = BatchSize
    /\ \A r \in DOMAIN written["A"] : written["A"][r] = 1

\* C17: a cursor-paginated task never has more than one batch in flight, and no
\* two of its batches are issued with the same continuation token, whatever the
\* effective maxConcurrentBatches is.
C17_CursorOneAtATime ==
    \A t \in Tasks :
        PaginationStrategy[t] = "cursor" =>
            /\ Cardinality({i \in DOMAIN task[t].jobs :
                               task[t].jobs[i].st \in {"wait", "fetch", "write", "caught"}}) <= 1
            /\ \A i, j \in DOMAIN task[t].issued :
                  i # j => task[t].issued[i][2] # task[t].issued[j][2]

\* C18: in a cursor-paginated task over a stable source with distinct cursor
\* values, the token recorded after an iteration is strictly greater than the
\* one recorded after the iteration before, and no source row is returned to
\* two batches of the task: no two batches hold the same row, and in the run
\* that starts with an empty destination no row is written twice.
C18_CursorMonotone ==
    \A t \in Tasks :
        PaginationStrategy[t] = "cursor" =>
            /\ \A k \in 1..(Len(task[t].tokens) - 1) :
                  /\ task[t].tokens[k] # Undefined
                  /\ task[t].tokens[k + 1] # Undefined
                  /\ task[t].tokens[k + 1][1] > task[t].tokens[k][1]
            /\ \A i, j \in DOMAIN task[t].jobs :
                  i # j => task[t].jobs[i].rows \cap task[t].jobs[j].rows = {}
            /\ run = 1 => \A r \in DOMAIN written[t] : written[t][r] <= 1

\* C19: in the run that starts with empty destination tables, the resolver of
\* a reference table returns null for every code as long as the table's
\* migration has not completed; once its task has completed and no task of a
\* later priority group has started, the code of every row the task loaded
\* resolves to the id of that row.
C19_ResolvesOnceComplete ==
    \A t \in Tasks :
        (IsReference[t] /\ run = 1) =>
            /\ ~task[t].tableProgress.isComplete =>
                  \A r \in 1..SourceSize[t] :
                      createForeignKeyResolverEnhanced(mappingCache, t, SourceKey(t, r)) = Null
            /\ (/\ task[t].pc = "fulfilled"
                /\ \A u \in Tasks : Priority[u] > Priority[t] => task[u].pc = "idle") =>
                  \A r \in committed[t] :
                      SourceKey(t, r) # Null =>
                          createForeignKeyResolverEnhanced(mappingCache, t, SourceKey(t, r))
                              = RowId(t, r)

\* the reference table's task has completed, the later group has not started,
\* and the code of a loaded row resolves to the row's id
C19_Witness ==
    /\ run = 1
    /\ task["A"].pc = "fulfilled"
    /\ task["C"].pc = "idle"
    /\ 1 \in committed["A"]
    /\ createForeignKeyResolverEnhanced(mappingCache, "A", SourceKey("A", 1)) = RowId("A", 1)

C21_OldOrNewMap ==
    call.op \in {"building", "build"} =>
        LET t == call.tableId[1]
            old == [mappingCache EXCEPT ![t] = call.before]
            new == [mappingCache EXCEPT ![t] = <<tableMapOf(call.result.rows)>>]
        IN  /\ mappingCache[t] \in {old[t], new[t]}
            /\ \/ \A c \in CacheCodes :
                     createForeignKeyResolverEnhanced(mappingCache, t, c)
                         = createForeignKeyResolverEnhanced(old, t, c)
               \/ \A c \in CacheCodes :
                     createForeignKeyResolverEnhanced(mappingCache, t, c)
                         = createForeignKeyResolverEnhanced(new, t, c)

\* a build that replaced a map by another map of two entries has not returned
C21_Witness ==
    /\ call.op = "building"
    /\ call.before # Undefined
    /\ mappingCache[call.tableId[1]] # call.before
    /\ Cardinality(DOMAIN mappingCache[call.tableId[1]][1]) >= 2

\* C22: a call of buildMappingCacheEnhanced returns true or false and never
\* raises; when the table is missing, lacks a column, holds no row with a code,
\* or a query fails, it returns false and the table's entry of the cache,
\* present or absent, is the one held before the call.
C22_FailedBuildKeepsCache ==
    call.op = "build" =>
        LET t == call.tableId[1]
            table == call.result.table
        IN  /\ call.result.success \in BOOLEAN
            /\ (\/ ~table.exists
                \/ {"code", "id"} \ table.columns # {}
                \/ \A row \in table.rows : row.code = Null
                \/ call.result.failed) =>
                   /\ ~call.result.success
                   /\ mappingCache[t] = call.before

\* a build over a table with rows but without a code returned false and the
\* map built before is still there
C22_Witness ==
    /\ call.op = "build"
    /\ ~call.result.failed
    /\ call.result.table.exists
    /\ call.result.table.rows # {}
    /\ \A row \in call.result.table.rows : row.code = Null
    /\ ~call.result.success
    /\ call.before # Undefined
    /\ mappingCache[call.tableId[1]] = call.before

\* C23: a reference table's task that has finished its batches is not made to
\* fail by its cache build: it is never rejected once its table is marked
\* complete, and a group whose tasks all finished their batches does not raise.
C23_CacheFailureTolerated ==
    /\ \A t \in Tasks :
          task[t].tableProgress.isComplete => task[t].pc # "rejected"
    /\ orch.pc = "raised" =>
          \E t \in Tasks : task[t].pc = "rejected" /\ ~task[t].tableProgress.isComplete

\* C24: in migrateTablesConcurrently a task is past the call of the table gate
\* only when the initial build of every configured reference table has
\* returned, and a run whose initial build of some table returned false still
\* starts its first priority group: it raises only for a group's failures.
C24_InitialCachesFirst ==
    /\ \A t \in Tasks :
          task[t].pc # "idle" => orch.attempted = {r \in Tasks : IsReference[r]}
    /\ orch.pc \notin {"boot", "caches"} =>
          orch.attempted = {r \in Tasks : IsReference[r]}
    /\ orch.pc = "raised" => orch.errors # <<>>

\* the initial build of the reference table returned false and a task of the
\* first group holds the table gate
C24_Witness ==
    /\ orch.attempted = {"A"}
    /\ orch.built = {}
    /\ orch.priority = 1
    /\ \E t \in Tasks : task[t].pc = "admitted"

\* C25: retryOperation calls the batch operation at most MaxRetries times; an
\* attempt that succeeded is followed by no further attempt of the batch; a
\* batch is rejected only after MaxRetries attempts, with the error of the
\* last one, and its task is then rejected.
C25_BoundedRetry ==
    /\ [](\A t \in Tasks : \A i \in DOMAIN task[t].jobs :
            /\ task[t].jobs[i].attempt <= MaxRetries
            /\ task[t].jobs[i].st = "rejected" =>
                  /\ task[t].jobs[i].attempt = MaxRetries
                  /\ task[t].jobs[i].lastError = MaxRetries
                  /\ task[t].pc = "rejected")
    /\ [][\A t \in Tasks : \A i \in DOMAIN task[t].jobs :
            (task[t].jobs[i].st = "ok" /\ i \in DOMAIN task'[t].jobs) =>
                task'[t].jobs[i] = task[t].jobs[i]]_vars

\* a batch failed MaxRetries times and its task is rejected, while another
\* batch of the task succeeded at its first attempt
C25_Witness ==
    \E t \in Tasks : \E i, j \in DOMAIN task[t].jobs :
        /\ task[t].jobs[i].st = "rejected"
        /\ task[t].jobs[i].attempt = MaxRetries
        /\ task[t].pc = "rejected"
        /\ task[t].jobs[j].st = "ok"
        /\ task[t].jobs[j].attempt = 1

\* C26: a task whose strategy is cursor and which has no cursor column is
\* rejected before any batch: it launches no batch, reads no source page,
\* writes no row and saves no checkpoint.
C26_FailFastWithoutCursorColumn ==
    \A t \in Tasks :
        (/\ PaginationStrategy[t] = "cursor"
         /\ task[t].cursorColumn = Undefined
         /\ task[t].pc \notin {"idle", "queued", "admitted", "cache", "fulfilled"}) =>
            /\ task[t].pc = "rejected"
            /\ task[t].issued = <<>>
            /\ task[t].jobs = <<>>
            /\ task[t].returned = {}
            /\ task[t].saved = Undefined
            /\ run = 1 => \A r \in DOMAIN written[t] : written[t][r] = 0

\* the cursor task without a cursor column has been rejected
C26_Witness ==
    /\ task["C"].pc = "rejected"
    /\ task["C"].cursorColumn = Undefined
    /\ task["C"].issued = <<>>
    /\ orch.pc = "awaiting"

\* C27: determinePaginationStrategyForMigration never raises, and for a task
\* whose strategy is chosen automatically it returns rownum whenever the table
\* name cannot be extracted, the row-count estimate fails or the index check
\* fails.
C27_FallbackToRownum ==
    call.op = "strategy" =>
        /\ ~call.result.raised
        /\ (/\ call.before.pinned = Undefined
            /\ call.before.configured = "rownum"
            /\ \/ ~call.before.tableMatch
               \/ call.before.rows = Undefined
               \/ call.before.cursorColumn # Undefined /\ call.before.index = "fails") =>
               call.result.strategy = "rownum"

\* C28: with skip-existing, an insert of a page writes exactly the rows of the
\* page whose natural key no destination row holds, and reports inserted +
\* skipped equal to the page length with updated = 0.
C28_SkipExistingWritesAbsentKeys ==
    [][\A t \in Tasks :
         (/\ options.resumeStrategy = "skip-existing"
          /\ task[t].pc = "insert"
          /\ task'[t].pc = "ckRead") =>
             LET page == task[t].page
                 held == {d \in DOMAIN written[t] : written[t][d] > 0}
                 absent == {r \in page : \A d \in held : recordKey(t, d) # recordKey(t, r)}
                 result == insertWithDuplicatePrevention(written[t], t, page,
                                                         options.resumeStrategy)
             IN  /\ written'[t] = [d \in DOMAIN written[t] |->
                                     IF d \in absent THEN written[t][d] + 1
                                     ELSE written[t][d]]
                 /\ result.inserted + result.skipped = Cardinality(page)
                 /\ result.updated = 0]_vars

\* C29: under skip-existing, whatever pages the runs have written, no natural
\* key is held by more than one destination row.
C29_NoDuplicateKeys ==
    options.resumeStrategy = "skip-existing" =>
        \A t \in Tasks :
            \A d1, d2 \in DOMAIN written[t] :
                /\ written[t][d1] <= 1
                /\ (d1 # d2 /\ written[t][d1] > 0 /\ written[t][d2] > 0) =>
                       recordKey(t, d1) # recordKey(t, d2)

\* C30: under fresh-start a task clears its destination table only before its
\* first page, and when the task has ended every row a page of the run wrote is
\* in the destination.
C30_FreshStartClearsOnce ==
    options.resumeStrategy = "fresh-start" =>
        \A t \in Tasks :
            /\ task[t].pc = "bulk" => task[t].batchNumber = 0
            /\ task[t].pc = "fulfilled" =>
                   \A r \in committed[t] : written[t][r] > 0

(***************************************************************************)
(* Properties of the batch loop of migrateTableInternal (Spec).            *)
(***************************************************************************)
\* source rows of a task that its last finished saveCheckpoint call covers:
\* the rows before the offset, or up to the cursor value, handed to the call
coveredBySave(t) ==
    IF task[t].saved = Undefined THEN {}
    ELSE IF PaginationStrategy[t] = "cursor"
         THEN IF task[t].saved[2] = Undefined THEN {}
              ELSE 1..task[t].saved[2][1]
         ELSE 1..task[t].saved[1]

\* C31: at every point of a run of migrateTablesConcurrently, the rows a task
\* has written to the destination beyond what its last finished checkpoint
\* save covers are the rows of at most one batch.
C31_AtMostOneBatchUnflushed ==
    run = 1 =>
        \A t \in Tasks :
            Cardinality(committed[t] \ coveredBySave(t)) <= BatchSize

\* the task stands after an iteration of its batch loop: the results are added
\* up and saveCheckpoint has been called
afterIteration(t) ==
    task[t].pc \in {"saveRead", "saveWrite", "loop", "cache"} /\ task[t].batchNumber > 0

\* C32: after every iteration of a task's batch loop, totalProcessed is the sum
\* of processedCount over the batches of the task completed so far,
\* lastProcessedId is (for offset and rownum) the start offset plus the page
\* size times the number of batches launched so far, and one checkpoint save
\* has been requested per iteration.
C32_ProgressAccounting ==
    \A t \in Tasks :
        afterIteration(t) =>
            /\ task[t].tableProgress.totalProcessed = task[t].processed
            /\ PaginationStrategy[t] \in {"offset", "rownum"} =>
                   task[t].tableProgress.lastProcessedId =
                       task[t].first[1] + BatchSize * task[t].batchNumber
            /\ task[t].saves * effectiveBatches(t) = task[t].batchNumber

\* an iteration of two batches that wrote rows has ended
C32_Witness ==
    \E t \in Tasks :
        /\ afterIteration(t)
        /\ task[t].batchNumber >= 2
        /\ task[t].processed > 0
        /\ task[t].saves >= 1

\* the checkpoint file holds the entry of the task with isComplete = true:
\* isTableComplete returns true
isTableComplete(t) ==
    LET entry == tableEntry(loadCheckpoint(file), t)
    IN  entry # Undefined /\ entry[1].isComplete

\* C33: whenever migrateTableEnhanced has returned normally for a task, the
\* checkpoint file holds the task's entry with isComplete = true, for a task
\* with an empty source as for any other.
C33_ReturnedMeansComplete ==
    \A t \in Tasks :
        (task[t].pc = "fulfilled" /\ faults = 0) => isTableComplete(t)

(***************************************************************************)
(* Properties of the two gates (Spec).                                     *)
(***************************************************************************)
\* tasks whose tableSemaphore.acquire() has not returned
TableWaiters == {t \in Tasks : task[t].pc = "queued"}

\* jobs whose batchSemaphore.acquire() has not returned
BatchWaiters ==
    {w \in Tasks \X (1..(MaxBatches + 2)) :
        /\ w[2] \in DOMAIN task[w[1]].jobs
        /\ task[w[1]].jobs[w[2]].st = "wait"}

\* s is t, or t with callers added at its end
IsPrefix(t, s) == Len(t) <= Len(s) /\ SubSeq(s, 1, Len(t)) = t

\* the state of a Semaphore of n permits with the given holders and waiters
SemaphoreSound(sem, n, holders, waiters) ==
    /\ 0 <= sem.permits /\ sem.permits <= n
    /\ sem.permits + Cardinality(holders) = n
    /\ sem.waiting # <<>> => sem.permits = 0
    /\ Range(sem.waiting) = waiters
    /\ Cardinality(waiters) = Len(sem.waiting)

\* a step of a Semaphore: callers join the end of the queue, or the caller at
\* its head, and no other, is admitted
SemaphoreFifo(sem, semNext, waiters, waitersNext) ==
    \/ /\ IsPrefix(sem.waiting, semNext.waiting)
       /\ waiters \subseteq waitersNext
    \/ /\ sem.waiting # <<>>
       /\ semNext.waiting = Tail(sem.waiting)
       /\ waiters \ waitersNext = {Head(sem.waiting)}

\* C34: for each of the two gates, created with n permits: 0 <= permits <= n,
\* permits plus the number of holders is n, callers wait only when permits = 0,
\* and waiters are admitted in the order in which they called acquire.
C34_SemaphoreInvariant ==
    /\ [](/\ SemaphoreSound(tableSemaphore, config.maxConcurrentTables,
                             TableHolders, TableWaiters)
          /\ SemaphoreSound(batchSemaphore, config.maxConcurrentBatches,
                             BatchHolders, BatchWaiters))
    /\ [][run' = run =>
            /\ SemaphoreFifo(tableSemaphore, tableSemaphore', TableWaiters, TableWaiters')
            /\ SemaphoreFifo(batchSemaphore, batchSemaphore', BatchWaiters, BatchWaiters')]_vars

\* two batches wait at the batch gate, which has no permit left
C34_Witness ==
    /\ Len(batchSemaphore.waiting) >= 2
    /\ batchSemaphore.permits = 0
    /\ Cardinality(BatchHolders) = config.maxConcurrentBatches

(***************************************************************************)
(* Termination of a run (SpecRun).                                         *)
(***************************************************************************)
\* C35: when every call eventually returns, a run of migrateTablesConcurrently
\* eventually finishes or raises, every task waiting at the table gate is
\* eventually admitted and every batch waiting at the batch gate is
\* eventually admitted.
C35_RunTerminates ==
    /\ <>(orch.pc \in {"done", "raised"})
    /\ \A t \in Tasks : (t \in TableWaiters) ~> (t \in TableHolders)
    /\ \A w \in Tasks \X (1..(MaxBatches + 2)) :
           (w \in BatchWaiters) ~> (w \in BatchHolders)

\* the run has finished after a task waited at the table gate and a batch
\* waited at the batch gate
C35_Witness ==
    /\ orch.pc = "done"
    /\ config.maxConcurrentTables = 1
    /\ config.maxConcurrentBatches = 1
    /\ \A t \in Range(migrations) : task[t].pc = "fulfilled"

(***************************************************************************)
(* Properties of the settling of tasks and batches (Spec).                 *)
(***************************************************************************)
\* C36: a settled task has no batch that has not settled, and when the run
\* has raised its error no batch reads from the source or writes to the
\* destination.
C36_SettledAfterBatches ==
    /\ \A t \in Tasks : Settled(t) => ~InFlight(t)
    /\ orch.pc = "raised" => BatchHolders = {}

\* C37: every acquire of a gate is followed by one release on every path:
\* whenever no task holds or awaits the table gate it has all its permits, and
\* whenever no batch holds or awaits the batch gate it has all its permits.
C37_PermitsReturned ==
    /\ (TableHolders = {} /\ TableWaiters = {}) =>
           tableSemaphore.permits = config.maxConcurrentTables
    /\ (BatchHolders = {} /\ BatchWaiters = {}) =>
           batchSemaphore.permits = config.maxConcurrentBatches

\* the run has raised after a call failed, a task was rejected and another
\* task wrote its batches; nothing runs any more
C37_Witness ==
    /\ orch.pc = "raised"
    /\ faults > 0
    /\ \E t \in Tasks : task[t].pc = "rejected" /\ task[t].batchNumber > 0
    /\ \E t \in Tasks : task[t].pc = "fulfilled" /\ task[t].processed > 0
    /\ TableHolders = {} /\ TableWaiters = {}
    /\ BatchHolders = {} /\ BatchWaiters = {}

(***************************************************************************)
(* Admission order of ConcurrentMigrator (SpecClass).                      *)
(***************************************************************************)
\* the task has passed the table gate
Admitted(t) == task[t].pc \notin {"idle", "queued"}

completeInFile(f, tableId) ==
    /\ f.state = "ok"
    /\ tableId \in DOMAIN f.data.tableProgress
    /\ f.data.tableProgress[tableId].isComplete

\* C39: no saveCheckpoint or markTableComplete call turns the isComplete of
\* an entry of the checkpoint file from true to false.
C39_CompleteIsStable ==
    [][\A tableId \in StoreIds :
          completeInFile(file, tableId) => completeInFile(file', tableId)]_vars

(***************************************************************************)
(* A batch that exhausts its retries (Spec).                               *)
(***************************************************************************)
\* the task was rejected because a batch of it exhausted its retries
FailedByBatch(tk, t) ==
    /\ tk[t].pc = "rejected"
    /\ \E i \in DOMAIN tk[t].jobs : tk[t].jobs[i].st = "rejected"

\* the entry of the task in state.checkpoint.tableProgress, if any
progressEntry(ck, tk, t) ==
    IF tk[t].tableId \in DOMAIN ck THEN <<ck[tk[t].tableId]>> ELSE Undefined

====
